---------------------------- MODULE Spec2Model ----------------------------
(***************************************************************************)
(* AgriTech decision-support prototypes: crop-suitability scoring and      *)
(* ranking (recommend_crops), price forecasting (predict_crop_prices and   *)
(* enhance_forecast), the Flask endpoints /forecast-price and              *)
(* /recommend-crop, and the caching WeatherService.                        *)
(*                                                                         *)
(* Four source trees carry near-duplicate code; a "variant" string names   *)
(* the tree an operator is taken from:                                     *)
(*   "final_backend"  final/backend/backend.py                             *)
(*   "final_app"      final/backend/app.py                                 *)
(*   "backend_app"    backend/app.py                                       *)
(*   "crop_model"     final/src/models/crop_recommendation.py              *)
(*                                                                         *)
(* Units.  Scores and market draws are in hundredths of a point (85 is     *)
(* 8500).  Prices are in hundredths of a rupee.  Yields are in tenths.     *)
(* Python None and the empty string are both falsy and are both written    *)
(* "" for strings; Python None and 0 are both falsy and are both written   *)
(* 0 for a month.                                                          *)
(***************************************************************************)
EXTENDS Integers, Sequences, FiniteSets, TLC

VARIABLES
    call,       \* the operation last invoked, with its arguments
    result,     \* what that operation returned
    cache,      \* WeatherService.cache: key -> (weather_data, timestamp)
    now,        \* datetime.now(): the month, and the time in quarter hours
    ws,         \* the weather lookup in progress and the provider's answer
    fetched,    \* history: per key, the latest successful provider fetch
    th          \* the lookups of concurrent request threads, per thread

vars == <<call, result, cache, now, ws, fetched, th>>

Max(a, b) == IF a >= b THEN a ELSE b
Min(a, b) == IF a <= b THEN a ELSE b
Abs(a) == IF a >= 0 THEN a ELSE -a

(***************************************************************************)
(* Reference tables                                                        *)
(***************************************************************************)

\* Iteration order of the crop_suitability dict literal (insertion order).
CropOrder ==
    <<"Rice", "Wheat", "Cotton", "Sugarcane", "Maize",
      "Onion", "Potato", "Tomato", "Soybean", "Groundnut">>

Crops == {CropOrder[i] : i \in 1..Len(CropOrder)}

crop_suitability ==
    [c \in Crops |->
       CASE c = "Rice" ->
              [seasons |-> {6, 7, 8, 9, 10, 11},
               states |-> {"West Bengal", "Punjab", "Andhra Pradesh", "Tamil Nadu", "Karnataka"},
               base_score |-> 85]
         [] c = "Wheat" ->
              [seasons |-> {11, 12, 1, 2, 3, 4},
               states |-> {"Punjab", "Haryana", "Uttar Pradesh", "Madhya Pradesh", "Rajasthan"},
               base_score |-> 82]
         [] c = "Cotton" ->
              [seasons |-> {6, 7, 8, 9, 10},
               states |-> {"Gujarat", "Maharashtra", "Andhra Pradesh", "Punjab", "Haryana"},
               base_score |-> 78]
         [] c = "Sugarcane" ->
              [seasons |-> 1..12,
               states |-> {"Uttar Pradesh", "Maharashtra", "Karnataka", "Tamil Nadu"},
               base_score |-> 75]
         [] c = "Maize" ->
              [seasons |-> {6, 7, 8, 9, 10},
               states |-> {"Karnataka", "Andhra Pradesh", "Tamil Nadu", "Rajasthan"},
               base_score |-> 72]
         [] c = "Onion" ->
              [seasons |-> {6, 7, 8, 9, 11, 12, 1},
               states |-> {"Maharashtra", "Karnataka", "Gujarat", "Madhya Pradesh"},
               base_score |-> 70]
         [] c = "Potato" ->
              [seasons |-> {10, 11, 12, 1, 2, 3},
               states |-> {"Uttar Pradesh", "West Bengal", "Bihar", "Punjab"},
               base_score |-> 68]
         [] c = "Tomato" ->
              [seasons |-> {6, 7, 8, 9, 10, 11, 12},
               states |-> {"Karnataka", "Andhra Pradesh", "Maharashtra", "Gujarat"},
               base_score |-> 65]
         [] c = "Soybean" ->
              [seasons |-> {6, 7, 8, 9},
               states |-> {"Madhya Pradesh", "Maharashtra", "Rajasthan"},
               base_score |-> 74]
         [] OTHER ->
              [seasons |-> {6, 7, 8, 9},
               states |-> {"Gujarat", "Andhra Pradesh", "Tamil Nadu", "Karnataka"},
               base_score |-> 71]]

\* final/backend/backend.py gives weather_requirements to four crops only.
WeatherCrops == {"Rice", "Wheat", "Cotton", "Sugarcane"}

Range(lo, hi, opt) == [min |-> lo, max |-> hi, optimal |-> opt]

weather_requirements ==
    [c \in WeatherCrops |->
       CASE c = "Rice" ->
              [temperature |-> Range(20, 35, 25),
               humidity |-> Range(60, 90, 75),
               rainfall |-> Range(100, 250, 150)]
         [] c = "Wheat" ->
              [temperature |-> Range(15, 30, 22),
               humidity |-> Range(40, 70, 55),
               rainfall |-> Range(50, 150, 100)]
         [] c = "Cotton" ->
              [temperature |-> Range(21, 37, 28),
               humidity |-> Range(50, 80, 65),
               rainfall |-> Range(75, 200, 125)]
         [] OTHER ->
              [temperature |-> Range(20, 35, 28),
               humidity |-> Range(60, 85, 70),
               rainfall |-> Range(150, 300, 200)]]

\* Tonnes per hectare, in tenths; 2.0 for a crop without an entry.
yield_estimates(crop) ==
    CASE crop = "Rice" -> 42
      [] crop = "Wheat" -> 35
      [] crop = "Maize" -> 31
      [] crop = "Cotton" -> 21
      [] crop = "Sugarcane" -> 750
      [] crop = "Onion" -> 200
      [] crop = "Potato" -> 250
      [] crop = "Tomato" -> 280
      [] crop = "Soybean" -> 18
      [] crop = "Groundnut" -> 22
      [] OTHER -> 20

\* The crops of CropRecommendationModel._init_crop_suitability, in order.
ModelCropOrder == <<"Rice", "Wheat", "Cotton">>

(***************************************************************************)
(* Weather snapshots.  A snapshot is a dict; "keys" are the keys it holds. *)
(* An absent snapshot (None) has present = FALSE.                          *)
(***************************************************************************)

WeatherKeys == {"temperature", "humidity", "rainfall"}

NoWeather ==
    [present |-> FALSE, keys |-> {}, temperature |-> 0, humidity |-> 0, rainfall |-> 0]

Snapshot(t, h, r) ==
    [present |-> TRUE, keys |-> WeatherKeys, temperature |-> t, humidity |-> h, rainfall |-> r]

\* A snapshot that lacks one key.
Without(w, k) == [w EXCEPT !.keys = @ \ {k}]

(***************************************************************************)
(* Scoring                                                                 *)
(***************************************************************************)

\* round(score, 1): to the nearest tenth, ties to the even tenth.
Round1(c) ==
    LET q == c \div 10
        r == c % 10
    IN  IF r < 5 THEN q * 10
        ELSE IF r > 5 THEN (q + 1) * 10
        ELSE IF q % 2 = 0 THEN q * 10 ELSE (q + 1) * 10

\* A clamp that forgets the upper bound.
ClampNoCeiling(score) == Max(3000, score)

\* score = max(30, min(100, score))
Clamp(score) == Max(3000, Min(10000, score))

\* A season adjustment without the penalty for a month out of season.
SeasonBonusOnly(crop, month) ==
    IF month # 0 /\ month \in crop_suitability[crop].seasons THEN 1500 ELSE 0

\* Season suitability: "if month and month in seasons ... elif month".
SeasonAdjust(crop, month) ==
    IF month # 0 /\ month \in crop_suitability[crop].seasons THEN 1500
    ELSE IF month # 0 THEN -1000
    ELSE 0

\* A scoring that ignores the state.
NoStateAdjust(crop, state) == 0

\* State suitability: "if state and state in states ... elif state".
StateAdjust(crop, state) ==
    IF state # "" /\ state \in crop_suitability[crop].states THEN 1000
    ELSE IF state # "" THEN -500
    ELSE 0

\* A weather scoring that gives up on a crop once the temperature is
\* outside the crop's range.
WeatherScoreNeedsTemperature(crop, w) ==
    IF /\ w.present /\ crop \in WeatherCrops /\ "temperature" \in w.keys
       /\ weather_requirements[crop].temperature.min <= w.temperature
       /\ w.temperature <= weather_requirements[crop].temperature.max
    THEN 10 ELSE 0

\* final/backend/backend.py: weather suitability scoring, in whole points.
WeatherScore(crop, w) ==
    IF w.present /\ crop \in WeatherCrops THEN
        LET reqs == weather_requirements[crop]
            temp_score ==
                IF "temperature" \in w.keys
                   /\ reqs.temperature.min <= w.temperature
                   /\ w.temperature <= reqs.temperature.max
                THEN 10 + (IF Abs(w.temperature - reqs.temperature.optimal) <= 3
                           THEN 5 ELSE 0)
                ELSE 0
            humid_score ==
                IF "humidity" \in w.keys
                   /\ reqs.humidity.min <= w.humidity
                   /\ w.humidity <= reqs.humidity.max
                THEN 8 + (IF Abs(w.humidity - reqs.humidity.optimal) <= 10
                          THEN 4 ELSE 0)
                ELSE 0
            rain_score ==
                IF "rainfall" \in w.keys /\ w.rainfall > 0
                THEN 7 + (IF reqs.rainfall.min <= w.rainfall
                             /\ w.rainfall <= reqs.rainfall.max
                          THEN 5 ELSE 0)
                ELSE 0
        IN  temp_score + humid_score + rain_score
    ELSE 0

\* backend/app.py: weather impact from fixed bands, in whole points.
WeatherImpact(w) ==
    IF w.present THEN
        (IF 20 <= w.temperature /\ w.temperature <= 30 THEN 10
         ELSE IF w.temperature < 15 \/ w.temperature > 35 THEN -15 ELSE 0)
        + (IF 50 <= w.humidity /\ w.humidity <= 70 THEN 5
           ELSE IF w.humidity > 90 THEN -10 ELSE 0)
        + (IF 0 <= w.rainfall /\ w.rainfall <= 30 THEN 8
           ELSE IF w.rainfall > 100 THEN -12 ELSE 0)
    ELSE 0

(***************************************************************************)
(* Market input of one crop.                                               *)
(*   kind "uniform":   the draw d of np.random.uniform(-5, 5)              *)
(*   kind "history":   get_price_history returned a list; newest is the    *)
(*                     price of its element 0 (today), oldest the price of *)
(*                     its last element (days - 1 days ago)                *)
(*   kind "none":      get_price_history returned None                     *)
(***************************************************************************)
Uniform(d) == [kind |-> "uniform", d |-> d, newest |-> 0, oldest |-> 0]
History(n, o) == [kind |-> "history", d |-> 0, newest |-> n, oldest |-> o]
NoHistory == [kind |-> "none", d |-> 0, newest |-> 0, oldest |-> 0]

\* backend/app.py: recent_trend = market_data[-1].price - market_data[0].price
MarketFactor(m) ==
    IF m.kind = "history"
    THEN (IF m.oldest - m.newest > 0 THEN 500 ELSE -500)
    ELSE IF m.kind = "uniform" THEN m.d
    ELSE 0

TriBool(applies, b) == IF ~applies THEN "null" ELSE IF b THEN "true" ELSE "false"


\* One crop's score as the loop body of AgriTechAPI.recommend_crops computes
\* it: base, season, state, weather, market, clamp; then round(score, 1).
CropScore(variant, crop, state, month, w, m) ==
    LET weather ==
            IF variant = "final_backend" THEN WeatherScore(crop, w)
            ELSE IF variant = "backend_app" THEN WeatherImpact(w)
            ELSE 0
        raw == crop_suitability[crop].base_score * 100
               + SeasonAdjust(crop, month)
               + StateAdjust(crop, state)
               + weather * 100
               + MarketFactor(m)
    IN  Round1(Clamp(raw))

\* A reason that leaves the weather out.
ReasonWithoutWeather(variant, crop, w) ==
    IF crop \in Crops THEN <<"rationale:" \o crop>> ELSE <<"Suitable crop for the region">>

\* final/backend/backend.py _get_recommendation_reason: the static rationale
\* (named by the crop) followed by the weather insights.
RecommendationReason(variant, crop, w) ==
    LET base_reason == IF crop \in Crops THEN <<"rationale:" \o crop>>
                       ELSE <<"Suitable crop for the region">>
        temp == IF "temperature" \notin w.keys THEN <<>>
                ELSE IF 20 <= w.temperature /\ w.temperature <= 30
                     THEN <<"Current temperature is favorable">>
                ELSE IF w.temperature > 30
                     THEN <<"Consider early morning irrigation due to high temperature">>
                ELSE <<"Monitor temperature for optimal growth">>
        humid == IF "humidity" \notin w.keys THEN <<>>
                 ELSE IF 60 <= w.humidity /\ w.humidity <= 80
                      THEN <<"Humidity levels are optimal">>
                 ELSE IF w.humidity > 80
                      THEN <<"Watch for fungal diseases in high humidity">>
                 ELSE <<"Additional irrigation may be needed in low humidity">>
        rain == IF "rainfall" \in w.keys /\ w.rainfall > 0
                THEN <<"Recent rainfall recorded">> ELSE <<>>
    IN  IF variant = "final_backend" /\ w.present
        THEN base_reason \o temp \o humid \o rain
        ELSE base_reason

\* The dict appended to recommendations for one crop.
Recommendation(variant, crop, state, month, w, m) ==
    [crop |-> crop,
     suitability_score |-> CropScore(variant, crop, state, month, w, m),
     estimated_yield |-> yield_estimates(crop),
     season_match |-> TriBool(month # 0, month \in crop_suitability[crop].seasons),
     region_suitable |-> TriBool(state # "", state \in crop_suitability[crop].states),
     weather_suitable |->
        IF variant = "final_backend"
        THEN TriBool(w.present, WeatherScore(crop, w) > 15)
        ELSE "absent",
     recommendation_reason |-> RecommendationReason(variant, crop, w)]

\* An insertion that puts x before its equals: ties lose their order.
InsertBeforeEquals(x, s) ==
    LET k == Cardinality({i \in 1..Len(s) : s[i].suitability_score > x.suitability_score})
    IN  SubSeq(s, 1, k) \o <<x>> \o SubSeq(s, k + 1, Len(s))

\* Insert x into s, which is ordered by non-increasing score, behind every
\* element whose score is at least x's.
InsertByScore(x, s) ==
    LET k == Cardinality({i \in 1..Len(s) : s[i].suitability_score >= x.suitability_score})
    IN  SubSeq(s, 1, k) \o <<x>> \o SubSeq(s, k + 1, Len(s))

\* recommendations.sort(key=suitability_score, reverse=True): list.sort is
\* stable, also with reverse=True; elements are placed in list order.
RECURSIVE SortByScore(_)
SortByScore(recs) ==
    IF recs = <<>> THEN <<>>
    ELSE InsertByScore(recs[Len(recs)], SortByScore(SubSeq(recs, 1, Len(recs) - 1)))

\* A slice that keeps four entries.
TopFour(recs) == SubSeq(recs, 1, Min(4, Len(recs)))

\* recommendations[:5]
TopFive(recs) == SubSeq(recs, 1, Min(5, Len(recs)))

\* The list built by the loop over crop_suitability.items(), before sorting.
\* wv[crop] is the weather_data in hand when the crop is scored:
\* final/backend/backend.py fetches it once before the loop, backend/app.py
\* asks the weather service again in every iteration.
Scored(variant, state, month, wv, mkt) ==
    [i \in 1..Len(CropOrder) |->
        Recommendation(variant, CropOrder[i], state, month,
                       wv[CropOrder[i]], mkt[CropOrder[i]])]

\* The local list recommendations after the sort.
Ranked(variant, state, month, wv, mkt) ==
    SortByScore(Scored(variant, state, month, wv, mkt))

\* AgriTechAPI.recommend_crops: score every crop, sort, keep the top five.
recommend_crops(variant, state, month, wv, mkt) ==
    TopFive(Ranked(variant, state, month, wv, mkt))

(***************************************************************************)
(* CropRecommendationModel (final/src/models/crop_recommendation.py)       *)
(***************************************************************************)

\* _calculate_base_score: 70, adjusted by soil pH (in tenths) when given.
CalculateBaseScore(has_ph, ph) ==
    70 + (IF ~has_ph THEN 0
          ELSE IF 60 <= ph /\ ph <= 75 THEN 10
          ELSE IF 55 <= ph /\ ph <= 80 THEN 5
          ELSE -5)

\* _calculate_weather_score; the table's 'weather' entries equal the
\* weather_requirements of the same three crops.
CalculateWeatherScore(crop, w) ==
    LET cw == weather_requirements[crop]
    IN  (IF "temperature" \in w.keys
            /\ cw.temperature.min <= w.temperature /\ w.temperature <= cw.temperature.max
         THEN 10 + (IF Abs(w.temperature - cw.temperature.optimal) <= 3 THEN 5 ELSE 0)
         ELSE 0)
        + (IF "humidity" \in w.keys
              /\ cw.humidity.min <= w.humidity /\ w.humidity <= cw.humidity.max
           THEN 8 ELSE 0)
        + (IF "rainfall" \in w.keys /\ w.rainfall > 0
              /\ cw.rainfall.min <= w.rainfall /\ w.rainfall <= cw.rainfall.max
           THEN 7 ELSE 0)

ModelRecommendation(crop, month, has_ph, ph, w) ==
    LET season == IF month \in crop_suitability[crop].seasons THEN 15 ELSE -10
        score == CalculateBaseScore(has_ph, ph)
                 + (IF w.present THEN CalculateWeatherScore(crop, w) ELSE 0)
                 + season
    IN  [crop |-> crop,
         suitability_score |-> Round1(Clamp(score * 100)),
         estimated_yield |-> 0,
         season_match |-> TriBool(TRUE, month \in crop_suitability[crop].seasons),
         region_suitable |-> "absent",
         weather_suitable |-> TriBool(TRUE, w.present),
         recommendation_reason |-> <<>>]

\* CropRecommendationModel.recommend_crops
ModelRecommendCrops(month, has_ph, ph, w) ==
    TopFive(SortByScore(
        [i \in 1..Len(ModelCropOrder) |->
            ModelRecommendation(ModelCropOrder[i], month, has_ph, ph, w)]))

(***************************************************************************)
(* Calendar.  A date is its ordinal: day 1 is 2024-01-01 (a Monday), 2024  *)
(* is a leap year, day 367 is 2025-01-01.  datetime + timedelta(days=i) is *)
(* ordinal + i; strftime('%Y-%m-%d') is DateOf, whose fields compare as    *)
(* the ISO string does.                                                    *)
(***************************************************************************)

IsLeap(y) == (y % 4 = 0 /\ y % 100 # 0) \/ y % 400 = 0

DaysInYear(y) == IF IsLeap(y) THEN 366 ELSE 365

DaysInMonth(y, m) ==
    IF m = 2 THEN (IF IsLeap(y) THEN 29 ELSE 28)
    ELSE IF m \in {4, 6, 9, 11} THEN 30
    ELSE 31

RECURSIVE DaysBeforeMonth(_, _)
DaysBeforeMonth(y, m) ==
    IF m = 1 THEN 0 ELSE DaysBeforeMonth(y, m - 1) + DaysInMonth(y, m - 1)

RECURSIVE YearOf(_, _)
YearOf(ord, y) == IF ord <= DaysInYear(y) THEN y ELSE YearOf(ord - DaysInYear(y), y + 1)

RECURSIVE DayOfYear(_, _)
DayOfYear(ord, y) == IF ord <= DaysInYear(y) THEN ord ELSE DayOfYear(ord - DaysInYear(y), y + 1)

DateOf(ord) ==
    LET y == YearOf(ord, 2024)
        n == DayOfYear(ord, 2024)
        m == CHOOSE k \in 1..12 :
                DaysBeforeMonth(y, k) < n /\ n <= DaysBeforeMonth(y, k) + DaysInMonth(y, k)
    IN  [year |-> y, month |-> m, day |-> n - DaysBeforeMonth(y, m)]

\* strftime('%A'): 0 is Monday.
Weekday(ord) == (ord - 1) % 7

\* Order of two formatted dates, as the order of the ISO strings.
DateBefore(a, b) ==
    \/ a.year < b.year
    \/ a.year = b.year /\ a.month < b.month
    \/ a.year = b.year /\ a.month = b.month /\ a.day < b.day

(***************************************************************************)
(* Price forecasting                                                       *)
(***************************************************************************)

PriceCrops == Crops

\* A table that prices every name as it prices Rice.
RicePriceForAll(crop) == 2200

\* base_prices, INR per quintal; 2000 for a crop that is not in the table.
base_prices(crop) ==
    CASE crop = "Rice" -> 2200
      [] crop = "Wheat" -> 1950
      [] crop = "Maize" -> 1650
      [] crop = "Cotton" -> 5200
      [] crop = "Sugarcane" -> 350
      [] crop = "Onion" -> 1400
      [] crop = "Potato" -> 900
      [] crop = "Tomato" -> 1800
      [] crop = "Soybean" -> 4200
      [] crop = "Groundnut" -> 4800
      [] OTHER -> 2000

\* Seasonal factor of a target month, in percent.
SeasonalFactor(crop, month) ==
    IF crop \in {"Rice", "Wheat"}
    THEN (IF month \in {10, 11, 12, 1, 2} THEN 110 ELSE 95)
    ELSE IF crop \in {"Cotton"}
    THEN (IF month \in {3, 4, 5} THEN 105 ELSE 100)
    ELSE (IF month \in {6, 7, 8, 9} THEN 108 ELSE 92)

\* A seasonal factor that looks at the month of the call, not of the day.
SeasonOfCall(crop, today, future_date) == SeasonalFactor(crop, DateOf(today).month)

\* The seasonal factor of one iteration: month = future_date.month.
SeasonOfDay(crop, today, future_date) == SeasonalFactor(crop, DateOf(future_date).month)

\* trend_factor = 1 + i * 0.002, in thousandths.
TrendFactor(i) == 1000 + 2 * i

\* A weather factor whose bands include their boundary values.
WeatherFactorInclusive(w) ==
    IF ~w.present THEN 1000
    ELSE LET f1 == IF w.temperature >= 35 \/ w.temperature <= 15 THEN 950 ELSE 1000
         IN  IF w.rainfall >= 50 THEN (f1 * 900) \div 1000 ELSE f1

\* backend/app.py weather_factor of one day's snapshot, in thousandths.
WeatherFactor(w) ==
    IF ~w.present THEN 1000
    ELSE LET f1 == IF w.temperature > 35 \/ w.temperature < 15 THEN 950 ELSE 1000
         IN  IF w.rainfall > 50 THEN (f1 * 900) \div 1000 ELSE f1

\* a * b / d, rounded to the nearest unit.
MulDiv(a, b, d) == (a * b + d \div 2) \div d

\* A forecast without the floor.
NoPriceFloor(price, base_price) == price

\* predicted_price = max(predicted_price, base_price * 0.7)
PriceFloor(price, base_price) == Max(price, base_price * 70)

\* One day's price in hundredths: base * seasonal * trend * weather *
\* (1 + volatility), floored, rounded to 2 decimals.  v is the volatility
\* draw in thousandths.
PredictedPrice(base_price, seasonal, i, wf, v) ==
    LET p0 == base_price * seasonal
        p1 == MulDiv(p0, TrendFactor(i), 1000)
        p2 == MulDiv(p1, wf, 1000)
        p3 == MulDiv(p2, 1000 + v, 1000)
    IN  PriceFloor(p3, base_price)

\* range(days) in place of range(1, days + 1).
RangeFromZero(days) == [k \in 1..days |-> k - 1]

\* range(1, days + 1): the day offsets of the loop, in order.
DayOffsets(days) == [k \in 1..days |-> k]

NoContext == [present |-> FALSE, temperature |-> 0, rainfall |-> 0, impact |-> ""]

\* The forecast_entry of day offset i.  w is the snapshot the weather
\* service returned in this iteration (NoWeather when it returned None or
\* when no district was given).
ForecastEntry(crop, today, i, w, v) ==
    LET future_date == today + i
        wf == WeatherFactor(w)
    IN  [date |-> DateOf(future_date),
         price |-> PredictedPrice(base_prices(crop),
                                  SeasonOfDay(crop, today, future_date),
                                  i, wf, v),
         day |-> Weekday(future_date),
         weather_context |->
            IF w.present
            THEN [present |-> TRUE, temperature |-> w.temperature,
                  rainfall |-> w.rainfall,
                  impact |-> IF wf < 1000 THEN "negative" ELSE "positive"]
            ELSE NoContext,
         blended |-> FALSE,
         confidence_lower |-> 0,
         confidence_upper |-> 0]

\* round((a + b) / 2, 2) on hundredths, ties to the even hundredth.
Blend(a, b) ==
    LET sum == a + b
        q == sum \div 2
    IN  IF sum % 2 = 0 THEN q ELSE IF q % 2 = 0 THEN q ELSE q + 1

\* The loop body of enhance_forecast: the point, changed in place.
BlendedPoint(point, ext_point) ==
    [point EXCEPT !.price = Blend(point.price, ext_point.yhat),
                  !.blended = TRUE,
                  !.confidence_lower = ext_point.yhat_lower,
                  !.confidence_upper = ext_point.yhat_upper]

\* An enhancement that gives every point the statistical model's first row.
BlendWithFirst(forecast, ext) ==
    [k \in 1..Len(forecast) |->
        IF k <= ext.done THEN BlendedPoint(forecast[k], ext.points[1]) ELSE forecast[k]]

\* AgmarknetService.enhance_forecast.  ext is what the statistical model
\* did: ext.points[k] holds yhat, yhat_lower and yhat_upper of the k-th
\* forecast date, in hundredths, and ext.done is the number of points the
\* loop had written when the function returned: all of them when ext.ok,
\* fewer when something raised (0 when fitting or predicting raised).  The
\* points are changed in place and the except branch returns the same dict,
\* so the points written before an exception stay written.
enhance_forecast(forecast, ext) ==
    [k \in 1..Len(forecast) |->
        IF k <= ext.done THEN BlendedPoint(forecast[k], ext.points[k]) ELSE forecast[k]]

\* prophet_forecast['market_insights'] is set after the loop.
HasMarketInsights(ext) == ext.ok

\* AgriTechAPI.predict_crop_prices.  days is the Python int the loop bound
\* is computed from; vols[k] and ws[k] are the volatility draw and the
\* weather lookup of the k-th iteration.  Only backend/app.py takes a
\* district, looks up weather and enhances the forecast.
predict_crop_prices(variant, crop, days, today, district, vols, wseq, ext) ==
    LET offs == DayOffsets(days)
        uses_district == variant = "backend_app" /\ district # ""
        forecasts ==
            [k \in 1..Len(offs) |->
                ForecastEntry(crop, today, offs[k],
                              IF uses_district THEN wseq[k] ELSE NoWeather,
                              vols[k])]
    IN  IF uses_district THEN enhance_forecast(forecasts, ext) ELSE forecasts

(***************************************************************************)
(* JSON request bodies.  A value is tagged with its JSON type; n carries   *)
(* an integer, a boolean (True is 1, as for Python's int subclass bool) or *)
(* a float in tenths; "absent" is a key the body does not have.            *)
(***************************************************************************)

JAbsent == [t |-> "absent", n |-> 0, s |-> ""]
JNull == [t |-> "null", n |-> 0, s |-> ""]
JInt(n) == [t |-> "int", n |-> n, s |-> ""]
JBool(b) == [t |-> "bool", n |-> IF b THEN 1 ELSE 0, s |-> ""]
JFloat(tenths) == [t |-> "float", n |-> tenths, s |-> ""]
JStr(s) == [t |-> "str", n |-> 0, s |-> s]

\* str.strip() on the strings that occur in the bodies.
Strip(s) ==
    CASE s = "  " -> ""
      [] s = " Rice " -> "Rice"
      [] s = " Karnataka " -> "Karnataka"
      [] OTHER -> s

\* str.lower() on the crop names that occur.
Lower(s) ==
    CASE s \in {"Rice", "rice", "RICE"} -> "rice"
      [] s \in {"Wheat", "wheat"} -> "wheat"
      [] s \in {"Cotton", "cotton"} -> "cotton"
      [] s \in {"Sugarcane", "sugarcane"} -> "sugarcane"
      [] s \in {"Maize", "maize"} -> "maize"
      [] s \in {"Onion", "onion"} -> "onion"
      [] s \in {"Potato", "potato"} -> "potato"
      [] s \in {"Tomato", "tomato"} -> "tomato"
      [] s \in {"Soybean", "soybean"} -> "soybean"
      [] s \in {"Groundnut", "groundnut"} -> "groundnut"
      [] s = "Quinoa" -> "quinoa"
      [] OTHER -> s

\* data.get(key, '').strip(): raises AttributeError unless absent or a string.
StripRaises(j) == j.t \notin {"absent", "str"}
Stripped(j) == IF j.t = "str" THEN Strip(j.s) ELSE ""

\* "if not data": an empty JSON object is falsy.
IsEmptyBody(body) == \A k \in DOMAIN body : body[k].t = "absent"

\* isinstance(x, int): true of int and of bool.
IsInstanceInt(j) == j.t \in {"int", "bool"}

\* not isinstance(days, int) or days < 1 or days > 30
DaysRejected(j) == ~IsInstanceInt(j) \/ j.n < 1 \/ j.n > 30

\* month is not None and (not isinstance(month, int) or month < 1 or month > 12)
MonthRejected(j) == j.t # "null" /\ (~IsInstanceInt(j) \/ j.n < 1 \/ j.n > 12)

ErrorResponse(status, error) ==
    [status |-> status, error |-> error, mode |-> "", forecast_days |-> JAbsent,
     predictions |-> <<>>, price_trend |-> "", month |-> JAbsent,
     recommendations |-> <<>>, analysis |-> <<>>]

\* The step of forecast_price that decides whether a forecast is computed:
\* 0 when it is, else the status answered.
ForecastValidation(body) ==
    IF IsEmptyBody(body) THEN 400
    ELSE IF StripRaises(body.crop) THEN 500
    ELSE IF Stripped(body.crop) = "" THEN 400
    ELSE IF DaysRejected(IF body.days.t = "absent" THEN JInt(15) ELSE body.days) THEN 400
    ELSE 0

ForecastValidationError(body) ==
    IF IsEmptyBody(body) THEN "No JSON data provided"
    ELSE IF StripRaises(body.crop) THEN "Internal server error"
    ELSE IF Stripped(body.crop) = "" THEN "Crop name is required"
    ELSE "Days must be between 1 and 30"

\* The forecast_price handler once validation passed; predictions is what
\* predict_crop_prices returned.
ForecastResponse(days, predictions) ==
    IF predictions = <<>>
    THEN ErrorResponse(500, "Failed to generate predictions")
    ELSE [status |-> 200, error |-> "", mode |-> "", forecast_days |-> days,
          predictions |-> predictions,
          price_trend |-> IF predictions[Len(predictions)].price > predictions[1].price
                          THEN "increasing" ELSE "decreasing",
          month |-> JAbsent, recommendations |-> <<>>, analysis |-> <<>>]

\* The "basic analysis for unknown crop" of the crop-analysis mode.
DefaultAnalysis(crop) ==
    [crop |-> crop, suitability_score |-> 6000, estimated_yield |-> 25,
     season_match |-> "null", region_suitable |-> "null",
     weather_suitable |-> "absent",
     recommendation_reason |-> <<"General farming practices recommended">>]

\* "for rec in crop_analysis: if rec['crop'].lower() == crop.lower()": the
\* records of the returned list that match, in order.
MatchingRecs(crop_analysis, crop) ==
    SelectSeq(crop_analysis, LAMBDA rec : Lower(rec.crop) = Lower(crop))

\* The crop-analysis mode of recommend_crop (final/backend/*.py), after
\* recommend_crops returned crop_analysis.
CropAnalysisResponse(crop, crop_analysis) ==
    LET hits == MatchingRecs(crop_analysis, crop)
        target_crop == IF hits # <<>> THEN hits[1] ELSE DefaultAnalysis(crop)
    IN  [status |-> 200, error |-> "", mode |-> "crop_analysis",
         forecast_days |-> JAbsent, predictions |-> <<>>, price_trend |-> "",
         month |-> JAbsent, recommendations |-> <<>>, analysis |-> <<target_crop>>]

\* Which branch recommend_crop takes before it scores anything:
\*   "crop_analysis" / "location_based": the mode whose scoring runs,
\*   "400" / "500": the status answered without scoring.
RecommendValidation(variant, body) ==
    IF IsEmptyBody(body) THEN "400"
    ELSE IF variant # "backend_app" /\ body.crop.t # "absent" THEN
        (IF StripRaises(body.crop) \/ StripRaises(body.state) THEN "500"
         ELSE IF Stripped(body.crop) = "" THEN "400"
         ELSE "crop_analysis")
    ELSE IF StripRaises(body.state) \/ StripRaises(body.district) THEN "500"
    ELSE IF Stripped(body.state) = "" THEN "400"
    ELSE IF body.month.t # "absent" /\ MonthRejected(body.month) THEN "400"
    ELSE IF variant = "backend_app" /\ body.month.t = "null" THEN "500"
    ELSE "location_based"

\* The month recommend_crops is called with in the location-based mode:
\* the body's month, or the current month when it is absent (or, in
\* final/backend/*.py, null).
EffectiveMonth(body, current_month) ==
    IF body.month.t \in {"absent", "null"} THEN JInt(current_month) ELSE body.month

LocationResponse(variant, month, recommendations) ==
    IF variant = "backend_app" /\ recommendations = <<>>
    THEN ErrorResponse(500, "Failed to generate recommendations")
    ELSE [status |-> 200, error |-> "",
          mode |-> IF variant = "backend_app" THEN "" ELSE "location_based",
          forecast_days |-> JAbsent, predictions |-> <<>>, price_trend |-> "",
          month |-> month, recommendations |-> recommendations, analysis |-> <<>>]

(***************************************************************************)
(* RecommendationEngine (core/data_models.py): the crops to sow in a       *)
(* district and month.  Prices are in rupees, price and yield factors in   *)
(* hundredths, profitability scores in thousandths.                        *)
(***************************************************************************)

\* The keys of CropDataManager.crop_calendars, in dict order.
CalendarOrder ==
    <<"Paddy (Rice)", "Maize", "Ragi (Finger Millet)", "Onion", "Tomato",
      "Groundnut", "Soybean", "Tur (Pigeon Pea)", "Chickpea", "Cotton">>

CalendarCrops == {CalendarOrder[i] : i \in 1..Len(CalendarOrder)}

Window(sowing, harvest, duration) ==
    [sowing |-> sowing, harvest |-> harvest, duration |-> duration]

\* _load_crop_calendars: crop -> season -> sowing and harvest windows.
crop_calendars ==
    [c \in CalendarCrops |->
        CASE c = "Paddy (Rice)" ->
               [kharif |-> Window(<<6, 7, 8>>, <<10, 11, 12>>, 120),
                rabi |-> Window(<<11, 12, 1>>, <<3, 4, 5>>, 150)]
          [] c = "Maize" ->
               [kharif |-> Window(<<6, 7>>, <<9, 10>>, 90),
                rabi |-> Window(<<10, 11>>, <<1, 2>>, 100)]
          [] c = "Ragi (Finger Millet)" ->
               [kharif |-> Window(<<6, 7, 8>>, <<10, 11, 12>>, 110),
                rabi |-> Window(<<9, 10>>, <<12, 1>>, 120)]
          [] c = "Onion" ->
               [kharif |-> Window(<<6, 7, 8>>, <<10, 11, 12>>, 120),
                rabi |-> Window(<<10, 11>>, <<2, 3>>, 140)]
          [] c = "Tomato" ->
               [kharif |-> Window(<<6, 7, 8>>, <<9, 10, 11>>, 90),
                rabi |-> Window(<<9, 10>>, <<12, 1>>, 100)]
          [] c = "Groundnut" ->
               [kharif |-> Window(<<6, 7>>, <<10, 11>>, 120),
                rabi |-> Window(<<10, 11>>, <<2, 3>>, 130)]
          [] c = "Soybean" ->
               [kharif |-> Window(<<6, 7>>, <<9, 10>>, 100),
                rabi |-> Window(<<10, 11>>, <<1, 2>>, 110)]
          [] c = "Tur (Pigeon Pea)" ->
               [kharif |-> Window(<<6, 7>>, <<12, 1, 2>>, 150),
                rabi |-> Window(<<10, 11>>, <<3, 4>>, 160)]
          [] c = "Chickpea" ->
               [rabi |-> Window(<<10, 11>>, <<2, 3>>, 120),
                kharif |-> Window(<<6, 7>>, <<9, 10>>, 100)]
          [] OTHER ->
               [kharif |-> Window(<<6, 7>>, <<11, 12, 1>>, 150),
                rabi |-> Window(<<10, 11>>, <<3, 4>>, 160)]]

\* base_prices[crop]["avg"] of _load_market_data.
market_base_price ==
    [c \in CalendarCrops |->
        CASE c = "Paddy (Rice)" -> 1750
          [] c = "Maize" -> 1550
          [] c = "Ragi (Finger Millet)" -> 2400
          [] c = "Onion" -> 25
          [] c = "Tomato" -> 18
          [] c = "Groundnut" -> 5000
          [] c = "Soybean" -> 3750
          [] c = "Tur (Pigeon Pea)" -> 5500
          [] c = "Chickpea" -> 4750
          [] OTHER -> 6000]

\* base_yields of _estimate_yield.
base_yields ==
    [c \in CalendarCrops |->
        CASE c = "Paddy (Rice)" -> 20
          [] c = "Maize" -> 25
          [] c = "Ragi (Finger Millet)" -> 15
          [] c = "Onion" -> 200
          [] c = "Tomato" -> 300
          [] c = "Groundnut" -> 12
          [] c = "Soybean" -> 15
          [] c = "Tur (Pigeon Pea)" -> 8
          [] c = "Chickpea" -> 10
          [] OTHER -> 8]

\* RecommendationEngine._get_season
GetSeason(month) ==
    IF month \in {6, 7, 8, 9, 10} THEN "kharif"
    ELSE IF month \in {11, 12, 1, 2, 3} THEN "rabi"
    ELSE "summer"

\* "month in sowing_months"
InList(x, list) == \E i \in 1..Len(list) : list[i] = x

\* "if season in calendar: if month in calendar[season]['sowing']"
IsSuitable(crop, month, season) ==
    /\ season \in DOMAIN crop_calendars[crop]
    /\ InList(month, crop_calendars[crop][season].sowing)

\* Sample of CropDataManager.districts.
karnataka_districts == {"Mysuru", "Mandya"}

\* get_market_data: district_variations.get(district, 1.0), in hundredths.
DistrictFactor(crop, district, data) ==
    IF district \in karnataka_districts THEN data[crop].variation ELSE 100

\* _calculate_profitability_score: (revenue - cost) / cost, where revenue is
\* district price times estimated yield.  data gives, per crop, the
\* district's price variation, the yield factor drawn by _estimate_yield
\* (both in hundredths) and the sum of the seven cost items.
CalculateProfitabilityScore(crop, district, data) ==
    LET revenue == market_base_price[crop] * DistrictFactor(crop, district, data)
                       * base_yields[crop] * data[crop].yield_factor
        cost == data[crop].cost * 10000
    IN  (revenue - cost) \div (data[crop].cost * 10)

\* Insert crop into s, which is in non-decreasing score order, behind every
\* element whose score is at most its own (list.sort is stable).
InsertByProfitability(crop, s, district, data) ==
    LET k == Cardinality({i \in 1..Len(s) :
                 CalculateProfitabilityScore(s[i], district, data)
                     <= CalculateProfitabilityScore(crop, district, data)})
    IN  SubSeq(s, 1, k) \o <<crop>> \o SubSeq(s, k + 1, Len(s))

\* suitable_crops.sort(key=...): ascending, no reverse.
RECURSIVE SortByProfitability(_, _, _)
SortByProfitability(crops, district, data) ==
    IF crops = <<>> THEN <<>>
    ELSE InsertByProfitability(crops[Len(crops)],
                               SortByProfitability(SubSeq(crops, 1, Len(crops) - 1),
                                                   district, data),
                               district, data)

\* _find_suitable_crops: the crops of the calendar, in dict order, that are
\* sown in the month, then sorted by the profitability score.
FindSuitableCrops(district, month, season, data) ==
    SortByProfitability(
        SelectSeq(CalendarOrder, LAMBDA c : IsSuitable(c, month, season)),
        district, data)

\* The part of _create_crop_recommendation that depends on the calendar.
CreateCropRecommendation(crop, season) ==
    [crop |-> crop, season |-> season,
     sowing_window |-> crop_calendars[crop][season].sowing,
     harvest_window |-> crop_calendars[crop][season].harvest,
     duration_days |-> crop_calendars[crop][season].duration]

\* "for crop in suitable_crops[:3]"
TopThree(crops) == SubSeq(crops, 1, Min(3, Len(crops)))

\* RecommendationEngine.get_recommendations: the "recommendations" list.
get_recommendations(district, month, data) ==
    LET season == GetSeason(month)
        chosen == TopThree(FindSuitableCrops(district, month, season, data))
    IN  [k \in 1..Len(chosen) |-> CreateCropRecommendation(chosen[k], season)]

(***************************************************************************)
(* AgriTechAPI.get_weather (final/backend/backend.py).  Temperatures of    *)
(* the provider are in hundredths of a kelvin, returned ones in tenths of  *)
(* a degree Celsius.                                                       *)
(***************************************************************************)

\* self.agro_api_key after __init__: the constructor assigns price_model,
\* crop_model, processor, the mappings, district_coordinates and
\* weather_service, and nothing reads the key from the environment, so the
\* attribute does not exist whatever AGRO_API_KEY is.
AgroKeyAfterInit(env_key) == [assigned |-> FALSE, value |-> ""]

\* _process_current_weather on the body used for a response: the JSON body
\* when the status is 200, {} otherwise.  draw is what
\* _get_fallback_current_weather would produce.
ProcessCurrentWeather(response, draw) ==
    IF response.status = 200 /\ response.has_main
    THEN [temperature |-> Round1(response.temp - 27315) \div 10,
          humidity |-> response.humidity, provided |-> TRUE]
    ELSE [temperature |-> draw.temperature, humidity |-> draw.humidity,
          provided |-> FALSE]

\* _get_fallback_weather(district)
GetWeatherFallback(district, draw) ==
    [district |-> district, source |-> "fallback",
     current |-> [temperature |-> draw.temperature, humidity |-> draw.humidity,
                  provided |-> FALSE]]

\* get_weather(district): reading a missing self.agro_api_key raises
\* AttributeError inside the try, a request may raise (timeout, connection
\* error); every exception ends in the fallback.
get_weather(key, district, current, forecast, draw) ==
    IF ~key.assigned THEN GetWeatherFallback(district, draw)
    ELSE IF key.value = "" THEN GetWeatherFallback(district, draw)
    ELSE IF current.raised \/ forecast.raised THEN GetWeatherFallback(district, draw)
    ELSE [district |-> district, source |-> "agro_api",
          current |-> ProcessCurrentWeather(current, draw)]

(***************************************************************************)
(* Bounds and the sets the inputs are drawn from                           *)
(***************************************************************************)

\* Crops whose market input differs from the rest in one recommend_crops call.
MaxPerturbed == 1

\* Series up to this length get draws and lookups that change once along
\* the series; longer ones (the default 15, the maximum 30) get the same
\* draw and lookup every day.
MaxDays == 3

ApiVariants == {"final_backend", "final_app", "backend_app"}

States == {"", "Maharashtra", "Kerala"}
Months == {0, 6, 11}

\* Draws of np.random.uniform(-5, 5), in hundredths.
MarketDraws == {-496, 4, 500}

\* Price histories: (newest, oldest) prices in hundredths.
PriceHistories == {History(210000, 200000), History(200000, 210000), History(200000, 200000)}

\* The vectors over the crops that take one value of S everywhere except
\* on at most MaxPerturbed crops.
Perturbed(S) ==
    UNION {UNION {{[c \in Crops |-> IF c \in P THEN f[c] ELSE b] : f \in [P -> S]}
                  : P \in {Q \in SUBSET Crops : Cardinality(Q) <= MaxPerturbed}}
           : b \in S}

Constant(S) == {[c \in Crops |-> b] : b \in S}

UniformVectors == Perturbed({Uniform(d) : d \in MarketDraws})
HistoryVectors == Perturbed(PriceHistories)

MarketInputs(variant) ==
    IF variant = "backend_app" THEN HistoryVectors ELSE UniformVectors

\* One market input for all crops.
PlainMarketInputs(variant) ==
    IF variant = "backend_app" THEN Constant(PriceHistories)
    ELSE Constant({Uniform(d) : d \in MarketDraws})

\* Sample of AgriTechAPI.district_coordinates (final/backend/backend.py).
district_coordinates == {"Bangalore", "Pune", "Mumbai"}

\* Snapshots a weather service hands out: hot and dry, monsoon, cold and
\* soaked, and the monsoon fallback of WeatherService._get_fallback_weather.
Weathers == {Snapshot(45, 60, 0), Snapshot(25, 75, 150), Snapshot(10, 95, 120),
             Snapshot(28, 80, 5)}

\* A snapshot from a weather service that gives no humidity reading.
PartialWeather == Without(Snapshot(25, 75, 150), "humidity")

\* The per-crop weather of a backend/app.py call: the service answers the
\* same for every crop, or changes its answer once during the loop.
ChangingWeather ==
    {[c \in Crops |-> IF c \in {"Rice", "Wheat", "Cotton", "Sugarcane", "Maize"} THEN a ELSE b]
        : a \in {NoWeather, Snapshot(25, 60, 10)},
          b \in {NoWeather, Snapshot(40, 95, 120)}}
    \cup Constant(Weathers)

\* What weather_data can be while recommend_crops scores.
WeatherInputs(variant, district) ==
    IF variant = "final_backend" /\ district \in district_coordinates
    THEN Constant(Weathers \cup {NoWeather, PartialWeather})
    ELSE IF variant = "backend_app" /\ district # ""
    THEN ChangingWeather
    ELSE Constant({NoWeather})

\* Call dates: 2024-02-27, 2024-09-28, 2024-12-30, 2025-05-30.
Todays == {58, 272, 365, 516}

ForecastCrops == {"Rice", "Cotton", "Onion", "Quinoa"}

\* Draws of np.random.normal(0, 0.03), in thousandths.
Volatilities == {-400, -60, 30}

\* Sequences of length d over S that change value at most once.
SwitchOnce(S, d) ==
    {[k \in 1..d |-> IF k < j THEN a ELSE b] : a \in S, b \in S, j \in 1..d}

ConstantSeqs(S, d) == {[k \in 1..d |-> a] : a \in S}

VolSeqs(d) ==
    IF d <= MaxDays THEN SwitchOnce(Volatilities, d) ELSE ConstantSeqs(Volatilities, d)

ForecastWeathers == {NoWeather, Snapshot(25, 60, 10), Snapshot(40, 60, 60)}

\* Snapshots at and next to the bounds of the weather bands: temperature
\* 15 and 35 with rainfall 50, temperature 14, rainfall 51.
BoundaryWeathers ==
    {Snapshot(15, 60, 50), Snapshot(35, 60, 50), Snapshot(14, 60, 50),
     Snapshot(35, 60, 51)}

WeatherSeqs(d) ==
    (IF d <= MaxDays THEN SwitchOnce(ForecastWeathers, d)
     ELSE ConstantSeqs(ForecastWeathers, d))
    \cup ConstantSeqs(BoundaryWeathers, d)

\* Outputs of the statistical model for one date, in hundredths.
ExtPoints ==
    {[yhat |-> 100000, yhat_lower |-> 90000, yhat_upper |-> 110000],
     [yhat |-> 138600, yhat_lower |-> 120000, yhat_upper |-> 160000],
     [yhat |-> 230001, yhat_lower |-> 200000, yhat_upper |-> 260000]}

ExtFailed == [ok |-> FALSE, points |-> <<>>, done |-> 0]

ExtOk(points) == [ok |-> TRUE, points |-> points, done |-> Len(points)]

\* Rows that differ from date to date.
ExtRamp(d) ==
    [k \in 1..d |-> [yhat |-> 150001 + 1000 * k, yhat_lower |-> 140000 + 1000 * k,
                     yhat_upper |-> 160000 + 1000 * k]]

\* An exception after the loop had written j points: in the loop (j < d)
\* or while market_insights was built (j = d).
ExtRaisedAfter(d, j) == [ok |-> FALSE, points |-> ExtRamp(d), done |-> j]

ExtOutcomes(d) ==
    {ExtFailed, ExtOk(ExtRamp(d)), ExtRaisedAfter(d, 1), ExtRaisedAfter(d, d)}

CropValues ==
    {JAbsent, JNull, JInt(5), JStr(""), JStr("  "), JStr("Rice"), JStr(" Rice "),
     JStr("rice"), JStr("Potato"), JStr("Quinoa")}
DaysValues ==
    {JAbsent, JNull, JInt(-5), JInt(0), JInt(1), JInt(MaxDays), JInt(30), JInt(31),
     JBool(TRUE), JBool(FALSE), JStr("5"), JFloat(25)}
StateValues ==
    {JAbsent, JNull, JStr(""), JStr("  "), JStr("Maharashtra"), JStr(" Karnataka ")}
MonthValues ==
    {JAbsent, JNull, JInt(-1), JInt(0), JInt(1), JInt(6), JInt(12), JInt(13),
     JBool(TRUE), JBool(FALSE), JStr("6"), JFloat(65)}
DistrictValues == {JAbsent, JStr("Pune"), JStr("Atlantis")}

ForecastBodies ==
    [crop : CropValues, days : DaysValues, state : {JAbsent}, month : {JAbsent},
     district : DistrictValues]

RecommendBodies ==
    [crop : {JAbsent}, days : {JAbsent}, state : StateValues, month : MonthValues,
     district : DistrictValues]
    \cup [crop : CropValues \ {JAbsent}, days : {JAbsent}, state : StateValues,
          month : {JAbsent, JInt(13)}, district : {JAbsent}]

\* Inputs of the recommendation engine: the district's price variation
\* (random.uniform(0.85, 1.15)), the yield factor (random.uniform(0.8, 1.2))
\* and the total cost of cultivation (seven random.randint items, 27000 to
\* 76000) of every crop.
EngineDraw(variation, yield_factor, cost) ==
    [variation |-> variation, yield_factor |-> yield_factor, cost |-> cost]
EngineDraws == {EngineDraw(v, y, c) : v \in {85, 100, 115}, y \in {80, 100, 120},
                                      c \in {27000, 50000, 76000}}
\* The same draw for every crop, or the middle draw with one crop that is
\* cheap to grow and yields well.
EngineData ==
    {[c \in CalendarCrops |-> d] : d \in EngineDraws}
    \cup {[c \in CalendarCrops |-> IF c = best THEN EngineDraw(115, 120, 27000)
                                   ELSE EngineDraw(100, 100, 50000)]
          : best \in CalendarCrops}
EngineDistricts == {"Mysuru", "Atlantis"}

\* What requests.get does for one of the two requests of get_weather:
\* it raises, or it returns a response with a status and a JSON body.
ProviderResponse(raised, status, has_main, temp, humidity) ==
    [raised |-> raised, status |-> status, has_main |-> has_main, temp |-> temp,
     humidity |-> humidity]
ProviderResponses ==
    {ProviderResponse(TRUE, 0, FALSE, 0, 0),
     ProviderResponse(FALSE, 200, TRUE, 29815, 55),
     ProviderResponse(FALSE, 200, TRUE, 30321, 70),
     ProviderResponse(FALSE, 401, FALSE, 0, 0)}
\* AGRO_API_KEY in the environment of the server: absent or set.
EnvironmentKeys == {"", "0123456789abcdef"}
\* Draws of _get_fallback_current_weather, temperature in tenths.
CurrentDraws == {[temperature |-> 200, humidity |-> 40],
                 [temperature |-> 347, humidity |-> 80]}

(***************************************************************************)
(* Operations of the API layer.  Each action is one complete call: it      *)
(* records the call and what it returned.  The API object keeps no state   *)
(* between calls, so a call starts from the idle state and Reply returns   *)
(* to it.                                                                  *)
(***************************************************************************)

apiVars == <<call, result>>
wsVars == <<cache, now, ws, fetched, th>>

NoCall == [op |-> "none", variant |-> ""]
NoResult == [returned |-> <<>>]
Idle == call = NoCall

\* AgriTechAPI.recommend_crops(state, month, district) called directly.
RecommendCropsCall ==
    /\ Idle
    /\ \E variant \in ApiVariants, state \in States, month \in Months,
       district \in {"", "Pune"} :
      \E wv \in WeatherInputs(variant, district), mkt \in MarketInputs(variant) :
        /\ variant = "final_app" => district = ""
        /\ call' = [op |-> "recommend_crops", variant |-> variant, state |-> state,
                    month |-> month, district |-> district, wv |-> wv, mkt |-> mkt]
        /\ result' = [returned |-> recommend_crops(variant, state, month, wv, mkt)]
        /\ UNCHANGED wsVars

\* CropRecommendationModel.recommend_crops(location_data, weather_data).
ModelRecommendCropsCall ==
    /\ Idle
    /\ \E month \in Months \ {0}, soil \in {<<FALSE, 0>>, <<TRUE, 65>>, <<TRUE, 57>>, <<TRUE, 90>>},
       w \in Weathers \cup {NoWeather, Without(Snapshot(25, 75, 150), "humidity")} :
        /\ call' = [op |-> "model_recommend_crops", variant |-> "crop_model",
                    month |-> month, has_ph |-> soil[1], ph |-> soil[2], w |-> w]
        /\ result' = [returned |-> ModelRecommendCrops(month, soil[1], soil[2], w)]
        /\ UNCHANGED wsVars

\* AgriTechAPI.predict_crop_prices(crop_name, days, district) called directly.
PredictCropPricesCall ==
    /\ Idle
    /\ \E variant \in ApiVariants, crop \in ForecastCrops, days \in 1..MaxDays,
       today \in Todays, district \in {"", "Pune"} :
      \E vols \in VolSeqs(days),
         wseq \in IF variant = "backend_app" /\ district # ""
                  THEN WeatherSeqs(days) ELSE ConstantSeqs({NoWeather}, days),
         ext \in IF variant = "backend_app" /\ district # ""
                 THEN ExtOutcomes(days) ELSE {ExtFailed} :
        /\ variant # "backend_app" => district = ""
        /\ call' = [op |-> "predict_crop_prices", variant |-> variant, crop |-> crop,
                    days |-> days, today |-> today, district |-> district,
                    vols |-> vols, wseq |-> wseq, ext |-> ext]
        /\ result' = [returned |->
                        predict_crop_prices(variant, crop, days, today, district,
                                            vols, wseq, ext)]
        /\ UNCHANGED wsVars

\* test_api_endpoints: agritech_api.predict_crop_prices('Rice', 5), with no
\* district; one volatility draw stands for all five days.
TestDays == 5

TestPriceForecast ==
    /\ Idle
    /\ \E variant \in ApiVariants, today \in Todays, v \in Volatilities :
        LET vols == [k \in 1..TestDays |-> v]
            wseq == [k \in 1..TestDays |-> NoWeather]
        IN  /\ call' = [op |-> "predict_crop_prices", variant |-> variant,
                        crop |-> "Rice", days |-> TestDays, today |-> today,
                        district |-> "", vols |-> vols, wseq |-> wseq,
                        ext |-> ExtFailed]
            /\ result' = [returned |->
                            predict_crop_prices(variant, "Rice", TestDays, today, "",
                                                vols, wseq, ExtFailed)]
            /\ UNCHANGED wsVars

\* POST /forecast-price.  A rejected body computes nothing; an accepted one
\* calls predict_crop_prices with the stripped crop and the days value.
ForecastPrice ==
    /\ Idle
    /\ \E variant \in ApiVariants, body \in ForecastBodies, today \in {272, 365} :
      /\ variant # "backend_app" => body.district.t = "absent"
      /\ IF ForecastValidation(body) # 0
         THEN /\ call' = [op |-> "forecast_price", variant |-> variant, body |-> body,
                          today |-> today, computed |-> FALSE]
              /\ result' = ErrorResponse(ForecastValidation(body),
                                         ForecastValidationError(body))
         ELSE LET crop == Stripped(body.crop)
                  days == IF body.days.t = "absent" THEN JInt(15) ELSE body.days
                  district == IF body.district.t = "str" THEN body.district.s ELSE ""
                  lookups == variant = "backend_app" /\ district # ""
              IN  \E vols \in VolSeqs(days.n),
                     wseq \in IF lookups THEN ConstantSeqs(ForecastWeathers, days.n)
                              ELSE ConstantSeqs({NoWeather}, days.n),
                     ext \in IF lookups
                             THEN {ExtFailed} \cup
                                  {ExtOk(p) : p \in ConstantSeqs(ExtPoints, days.n)}
                             ELSE {ExtFailed} :
                    /\ call' = [op |-> "forecast_price", variant |-> variant,
                                body |-> body, today |-> today, computed |-> TRUE]
                    /\ result' = ForecastResponse(days,
                                    predict_crop_prices(variant, crop, days.n, today,
                                                        district, vols, wseq, ext))
      /\ UNCHANGED wsVars

\* The try/except around the body of recommend_crops: when anything in
\* it raised, the exception is logged and an empty list is returned.
RecommendCropsOutcome(raised, recs) == IF raised THEN <<>> ELSE recs

\* POST /recommend-crop.  raised says that the scoring met an unexpected
\* exception (a weather value of a type that cannot be compared, say).
RecommendCrop ==
    /\ Idle
    /\ \E variant \in ApiVariants, body \in RecommendBodies, today \in {272, 365} :
      LET branch == RecommendValidation(variant, body)
          current_month == DateOf(today).month
          state == Stripped(body.state)
          district == Stripped(body.district)
          scoring == branch \in {"crop_analysis", "location_based"}
      IN
      /\ variant = "final_app" => body.district.t = "absent"
      /\ \E raised \in IF scoring THEN BOOLEAN ELSE {FALSE},
            wv \in IF branch = "location_based" THEN WeatherInputs(variant, district)
                   ELSE Constant({NoWeather}),
            mkt \in IF scoring THEN PlainMarketInputs(variant) ELSE Constant({NoHistory}) :
           /\ call' = [op |-> "recommend_crop", variant |-> variant, body |-> body,
                       today |-> today, branch |-> branch, raised |-> raised,
                       wv |-> wv, mkt |-> mkt]
           /\ CASE branch = "400" ->
                     result' = ErrorResponse(400, "required field missing or month out of range")
                [] branch = "500" ->
                     result' = ErrorResponse(500, "Internal server error")
                [] branch = "crop_analysis" ->
                     result' = CropAnalysisResponse(
                                 Stripped(body.crop),
                                 RecommendCropsOutcome(raised,
                                     recommend_crops(variant, state, current_month, wv, mkt)))
                [] OTHER ->
                     LET month == EffectiveMonth(body, current_month)
                     IN  result' = LocationResponse(variant, month,
                                     RecommendCropsOutcome(raised,
                                         recommend_crops(variant, state, month.n, wv, mkt)))
      /\ UNCHANGED wsVars

\* RecommendationEngine.get_recommendations(district, month).
GetRecommendationsCall ==
    /\ Idle
    /\ \E district \in EngineDistricts, month \in 1..12, data \in EngineData :
        /\ call' = [op |-> "get_recommendations", variant |-> "core",
                    district |-> district, month |-> month, data |-> data]
        /\ result' = [returned |-> get_recommendations(district, month, data)]
        /\ UNCHANGED wsVars

\* AgriTechAPI.get_weather(district) on the object __init__ constructed.
GetWeatherCall ==
    /\ Idle
    /\ \E district \in {"Pune", "Atlantis"}, env_key \in EnvironmentKeys,
          current \in ProviderResponses, forecast \in ProviderResponses,
          draw \in CurrentDraws :
        /\ call' = [op |-> "get_weather", variant |-> "final_backend",
                    district |-> district, env_key |-> env_key, current |-> current,
                    forecast |-> forecast, draw |-> draw]
        /\ result' = [returned |-> get_weather(AgroKeyAfterInit(env_key), district,
                                               current, forecast, draw)]
        /\ UNCHANGED wsVars

\* The response has been handed to the caller.
Reply ==
    /\ ~Idle
    /\ call' = NoCall
    /\ result' = NoResult
    /\ UNCHANGED wsVars

NextApi ==
    \/ Reply
    \/ RecommendCropsCall
    \/ ModelRecommendCropsCall
    \/ PredictCropPricesCall
    \/ TestPriceForecast
    \/ ForecastPrice
    \/ RecommendCrop
    \/ GetRecommendationsCall
    \/ GetWeatherCall

InitApi ==
    /\ call = NoCall
    /\ result = NoResult

(***************************************************************************)
(* WeatherService: the lookup with its in-memory cache.  Time is counted   *)
(* in quarter hours.  A lookup that misses the cache sends the request     *)
(* and waits; the provider's answer, when one comes, is handled by         *)
(* Receive.                                                                *)
(***************************************************************************)

\* self.cache_duration = timedelta(hours=1), in quarter hours
CacheDuration == 4
MaxTime == 6

CacheKeys == {"12.9716,77.5946", "18.5204,73.8567"}
StartMonths == {1, 4, 7, 10}

NoRain == [present |-> FALSE, h1 |-> 0, h3 |-> 0]
Rain(h1, h3) == [present |-> TRUE, h1 |-> h1, h3 |-> h3]
NoReading == [temperature |-> 0, humidity |-> 0, rain |-> NoRain, wind_speed |-> 0]
ProviderReadings ==
    { [temperature |-> 22, humidity |-> 70, rain |-> NoRain, wind_speed |-> 3],
      [temperature |-> 31, humidity |-> 40, rain |-> Rain(0, 2), wind_speed |-> 5] }

NoOutcome == [kind |-> "none", reading |-> NoReading]
Failures == {"timeout", "connection_error", "http_error", "malformed"}
Outcomes ==
    {[kind |-> "ok", reading |-> r] : r \in ProviderReadings}
        \cup {[kind |-> k, reading |-> NoReading] : k \in Failures}

\* A returned dict: the keys it has and their values; none is Python's None.
NoneData ==
    [none |-> TRUE, keys |-> {}, temperature |-> 0, humidity |-> 0, rainfall |-> 0,
     wind_speed |-> 0, description |-> "", timestamp |-> 0, is_fallback |-> FALSE]

get_rainfall(rain) ==
    IF rain.present THEN (IF rain.h1 # 0 THEN rain.h1 ELSE rain.h3) ELSE 0

WeatherData(reading, t) ==
    [none |-> FALSE,
     keys |-> {"temperature", "humidity", "rainfall", "wind_speed", "description",
               "timestamp"},
     temperature |-> reading.temperature, humidity |-> reading.humidity,
     rainfall |-> get_rainfall(reading.rain), wind_speed |-> reading.wind_speed,
     description |-> "provider", timestamp |-> t, is_fallback |-> FALSE]

CoordsData(reading) ==
    [none |-> FALSE,
     keys |-> {"temperature", "humidity", "rainfall", "description"},
     temperature |-> reading.temperature, humidity |-> reading.humidity,
     rainfall |-> reading.rain.h1, wind_speed |-> 0,
     description |-> "provider", timestamp |-> 0, is_fallback |-> FALSE]

SeasonalEstimate(month) ==
    IF month \in {3, 4, 5} THEN <<35, 50, 0>>
    ELSE IF month \in {6, 7, 8, 9} THEN <<28, 80, 5>>
    ELSE IF month \in {11, 12, 1} THEN <<20, 60, 0>>
    ELSE <<25, 65, 0>>

get_fallback_weather(month, t) ==
    [none |-> FALSE,
     keys |-> {"temperature", "humidity", "rainfall", "wind_speed", "description",
               "timestamp", "is_fallback"},
     temperature |-> SeasonalEstimate(month)[1], humidity |-> SeasonalEstimate(month)[2],
     rainfall |-> SeasonalEstimate(month)[3], wind_speed |-> 10,
     description |-> "Fallback data", timestamp |-> t, is_fallback |-> TRUE]

NoEntry == [present |-> FALSE, data |-> NoneData, timestamp |-> 0]
\* An entry whose snapshot half is missing.
TornEntry(data, t) == [present |-> TRUE, data |-> NoneData, timestamp |-> t]

Entry(data, t) == [present |-> TRUE, data |-> data, timestamp |-> t]

FreshAtExpiry(entry, t) == entry.present /\ t - entry.timestamp <= CacheDuration
\* cache_key in self.cache and datetime.now() - timestamp < self.cache_duration
Fresh(entry, t) == entry.present /\ t - entry.timestamp < CacheDuration

OnlyConnectionError(kind) == kind = "connection_error"
\* except requests.RequestException: Timeout, ConnectionError and HTTPError
\* (raise_for_status) are caught; a KeyError on a malformed body is not.
IsRequestException(kind) == kind \in {"timeout", "connection_error", "http_error"}

\* district is the district of a lookup by name ("" for a lookup by
\* coordinates) and known says that it is a key of the caller's map.
\* last_failed records history: the key whose latest get_weather_data call
\* ended in a provider failure ("" when there is none), and after_failure
\* says that the running lookup is for that key.
IdleWs ==
    [pc |-> "idle", service |-> "", key |-> "", at |-> 0, contacted |-> FALSE,
     prior |-> NoEntry, outcome |-> NoOutcome, raised |-> FALSE, returned |-> NoneData,
     district |-> "", known |-> FALSE, last_failed |-> "", after_failure |-> FALSE]

\* A service that stores the fallback as it stores a fetched snapshot.
CacheAfterFailureStores(entries, key, fallback, t) ==
    [entries EXCEPT ![key] = Entry(fallback, t)]

\* The cache after a failed request for key: the except branch returns the
\* fallback without storing anything.
CacheAfterFailure(entries, key, fallback, t) == entries

\* WeatherService.get_weather_data(lat, lon) up to the cache check and the
\* sending of the request.
Lookup(key) ==
    LET started == [IdleWs EXCEPT !.service = "final_backend", !.key = key,
                                  !.at = now.t, !.prior = fetched[key],
                                  !.last_failed = ws.last_failed,
                                  !.after_failure = (ws.last_failed = key)]
    IN  IF Fresh(cache[key], now.t)
        THEN [started EXCEPT !.pc = "done", !.returned = cache[key].data]
        ELSE [started EXCEPT !.pc = "waiting", !.contacted = TRUE]

GetWeatherData ==
    /\ ws.pc = "idle"
    /\ \E key \in CacheKeys : ws' = Lookup(key)
    /\ UNCHANGED <<cache, now, fetched, th, apiVars>>

\* The coordinates maps callers pass: the one of test_weather_api.py and a
\* map of two districts.  A map gives the cache key of a district's pair.
CoordinateMaps ==
    { [d \in {"Bangalore"} |-> "12.9716,77.5946"],
      [d \in {"Bangalore", "Pune"} |->
          IF d = "Bangalore" THEN "12.9716,77.5946" ELSE "18.5204,73.8567"] }

Districts == {"Bangalore", "Pune", "NonexistentDistrict"}

\* A district lookup that answers a fallback for a district it does not know.
FallbackForUnknown(month, t) == get_fallback_weather(month, t)

\* if district not in coordinates_map: return None
DistrictNotFound(month, t) == NoneData

\* WeatherService.get_weather_by_district(district, coordinates_map) up to
\* its return of None or to the point get_weather_data has reached.
GetWeatherByDistrict ==
    /\ ws.pc = "idle"
    /\ \E district \in Districts, coordinates_map \in CoordinateMaps :
         IF district \notin DOMAIN coordinates_map
         THEN ws' = [IdleWs EXCEPT !.pc = "done", !.service = "final_backend",
                                   !.at = now.t, !.district = district,
                                   !.last_failed = ws.last_failed,
                                   !.returned = DistrictNotFound(now.month, now.t)]
         ELSE ws' = [Lookup(coordinates_map[district])
                        EXCEPT !.district = district, !.known = TRUE]
    /\ UNCHANGED <<cache, now, fetched, th, apiVars>>

\* backend/app WeatherService.get_weather_by_coords(lat, lon): no cache.
GetWeatherByCoords ==
    /\ ws.pc = "idle"
    /\ \E key \in CacheKeys :
         ws' = [IdleWs EXCEPT !.service = "backend_app", !.key = key, !.at = now.t,
                              !.pc = "waiting", !.contacted = TRUE,
                              !.last_failed = ws.last_failed]
    /\ UNCHANGED <<cache, now, fetched, th, apiVars>>

\* The provider, or the transport, ends the pending request.
ProviderAnswers ==
    /\ ws.pc = "waiting"
    /\ \E outcome \in Outcomes :
         ws' = [ws EXCEPT !.pc = "answered", !.outcome = outcome]
    /\ UNCHANGED <<cache, now, fetched, th, apiVars>>

\* The rest of the lookup, from the return of requests.get.
Receive ==
    /\ ws.pc = "answered"
    /\ IF ws.service = "final_backend"
       THEN IF ws.outcome.kind = "ok"
            THEN LET weather_data == WeatherData(ws.outcome.reading, now.t)
                 IN  /\ cache' = [cache EXCEPT ![ws.key] = Entry(weather_data, now.t)]
                     /\ fetched' = [fetched EXCEPT ![ws.key] = Entry(weather_data, now.t)]
                     /\ ws' = [ws EXCEPT !.pc = "done", !.returned = weather_data]
            ELSE /\ IF IsRequestException(ws.outcome.kind)
                    THEN LET fallback == get_fallback_weather(now.month, now.t)
                         IN  /\ ws' = [ws EXCEPT !.pc = "done", !.returned = fallback]
                             /\ cache' = CacheAfterFailure(cache, ws.key, fallback, now.t)
                    ELSE /\ ws' = [ws EXCEPT !.pc = "done", !.raised = TRUE]
                         /\ UNCHANGED cache
                 /\ UNCHANGED fetched
       ELSE /\ IF ws.outcome.kind = "ok"
               THEN ws' = [ws EXCEPT !.pc = "done",
                              !.returned = CoordsData(ws.outcome.reading)]
               ELSE ws' = [ws EXCEPT !.pc = "done", !.returned = NoneData]
            /\ UNCHANGED <<cache, fetched>>
    /\ UNCHANGED <<now, th, apiVars>>

\* The history after a lookup: a get_weather_data call whose request failed
\* marks its key, one that returned a snapshot of the provider or of the
\* cache clears the mark of its key.
LastFailedAfter(w) ==
    IF w.service # "final_backend" \/ w.key = "" THEN w.last_failed
    ELSE IF w.contacted /\ w.outcome.kind # "ok" THEN w.key
    ELSE IF w.key = w.last_failed THEN ""
    ELSE w.last_failed

\* The caller has the result; the service is ready for the next lookup.
Return ==
    /\ ws.pc = "done"
    /\ ws' = [IdleWs EXCEPT !.last_failed = LastFailedAfter(ws)]
    /\ UNCHANGED <<cache, now, fetched, th, apiVars>>

\* A quarter of an hour passes.
Tick ==
    /\ now.t < MaxTime
    /\ now' = [now EXCEPT !.t = @ + 1]
    /\ UNCHANGED <<cache, ws, fetched, th, apiVars>>

NextWeather ==
    \/ GetWeatherData
    \/ GetWeatherByDistrict
    \/ GetWeatherByCoords
    \/ ProviderAnswers
    \/ Receive
    \/ Return
    \/ Tick

\* Request threads of the server that share one WeatherService.
Threads == {"t1", "t2"}

IdleThread ==
    [pc |-> "idle", key |-> "", entry |-> NoEntry, outcome |-> NoOutcome,
     weather_data |-> NoneData, raised |-> FALSE, returned |-> NoneData]

InitWeather ==
    /\ call = NoCall
    /\ result = NoResult
    /\ cache = [k \in CacheKeys |-> NoEntry]
    /\ fetched = [k \in CacheKeys |-> NoEntry]
    /\ ws = IdleWs
    /\ th = [t \in Threads |-> IdleThread]
    /\ now \in [month : StartMonths, t : {0}]

InitIdleWeather ==
    /\ cache = [k \in CacheKeys |-> NoEntry]
    /\ fetched = [k \in CacheKeys |-> NoEntry]
    /\ ws = IdleWs
    /\ th = [t \in Threads |-> IdleThread]
    /\ now = [month |-> 1, t |-> 0]

Init == InitApi /\ InitIdleWeather

Next == NextApi

Spec == Init /\ [][Next]_vars

SpecWeather == InitWeather /\ [][NextWeather]_vars

\* Receive and Return are steps of the running program; nothing obliges the
\* provider to answer.
SpecWeatherFair ==
    /\ InitWeather
    /\ [][NextWeather]_vars
    /\ WF_vars(Receive)
    /\ WF_vars(Return)

(***************************************************************************)
(* Concurrent lookups.  The server handles requests in threads that share  *)
(* one WeatherService; a thread can be preempted between any two of the    *)
(* steps below.  A dict lookup, a dict store and the building of a tuple   *)
(* are each one step of the interpreter.                                   *)
(***************************************************************************)

\* The provider answers a request for a coordinate pair with the weather
\* at that pair.
KeyTemperatures(key) == IF key = "12.9716,77.5946" THEN {22, 24} ELSE {31, 33}

ReadingsFor(key) ==
    {[temperature |-> x, humidity |-> 70, rain |-> NoRain, wind_speed |-> 3]
        : x \in KeyTemperatures(key)}

OutcomesFor(key) ==
    {[kind |-> "ok", reading |-> r] : r \in ReadingsFor(key)}
        \cup {[kind |-> k, reading |-> NoReading] : k \in {"http_error", "malformed"}}

\* What is left of a finished call: its key and what it returned or raised.
Finished(key, returned, raised) ==
    [IdleThread EXCEPT !.pc = "done", !.key = key, !.returned = returned,
                       !.raised = raised]

\* cache_key = f"{lat},{lon}"
ThreadCall(t) ==
    /\ th[t].pc = "idle"
    /\ \E key \in CacheKeys :
         th' = [th EXCEPT ![t] = [IdleThread EXCEPT !.pc = "check", !.key = key]]
    /\ UNCHANGED <<cache, now, ws, fetched, apiVars>>

\* if cache_key in self.cache
ThreadCheck(t) ==
    /\ th[t].pc = "check"
    /\ th' = [th EXCEPT ![t].pc = IF cache[th[t].key].present THEN "read" ELSE "request"]
    /\ UNCHANGED <<cache, now, ws, fetched, apiVars>>

\* cached_data, timestamp = self.cache[cache_key]
ThreadRead(t) ==
    /\ th[t].pc = "read"
    /\ th' = [th EXCEPT ![t].pc = "compare", ![t].entry = cache[th[t].key]]
    /\ UNCHANGED <<cache, now, ws, fetched, apiVars>>

\* if datetime.now() - timestamp < self.cache_duration: return cached_data
ThreadCompare(t) ==
    /\ th[t].pc = "compare"
    /\ IF Fresh(th[t].entry, now.t)
       THEN th' = [th EXCEPT ![t] = Finished(th[t].key, th[t].entry.data, FALSE)]
       ELSE th' = [th EXCEPT ![t].pc = "request", ![t].entry = NoEntry]
    /\ UNCHANGED <<cache, now, ws, fetched, apiVars>>

\* requests.get(self.base_url, params=params) is sent.
ThreadRequest(t) ==
    /\ th[t].pc = "request"
    /\ th' = [th EXCEPT ![t].pc = "waiting"]
    /\ UNCHANGED <<cache, now, ws, fetched, apiVars>>

ThreadAnswer(t) ==
    /\ th[t].pc = "waiting"
    /\ \E outcome \in OutcomesFor(th[t].key) :
         th' = [th EXCEPT ![t].pc = "answered", ![t].outcome = outcome]
    /\ UNCHANGED <<cache, now, ws, fetched, apiVars>>

\* raise_for_status, the building of weather_data, or the except branch.
ThreadReceive(t) ==
    /\ th[t].pc = "answered"
    /\ IF th[t].outcome.kind = "ok"
       THEN th' = [th EXCEPT ![t].pc = "store", ![t].outcome = NoOutcome,
                             ![t].weather_data = WeatherData(th[t].outcome.reading, now.t)]
       ELSE IF IsRequestException(th[t].outcome.kind)
       THEN th' = [th EXCEPT ![t] = Finished(th[t].key,
                                             get_fallback_weather(now.month, now.t), FALSE)]
       ELSE th' = [th EXCEPT ![t] = [Finished(th[t].key, NoneData, TRUE)
                                        EXCEPT !.outcome = th[t].outcome]]
    /\ UNCHANGED <<cache, now, ws, fetched, apiVars>>

\* self.cache[cache_key] = (weather_data, datetime.now()); return weather_data
ThreadStore(t) ==
    /\ th[t].pc = "store"
    /\ cache' = [cache EXCEPT ![th[t].key] = Entry(th[t].weather_data, now.t)]
    /\ th' = [th EXCEPT ![t] = Finished(th[t].key, th[t].weather_data, FALSE)]
    /\ UNCHANGED <<now, ws, fetched, apiVars>>

ThreadReturn(t) ==
    /\ th[t].pc = "done"
    /\ th' = [th EXCEPT ![t] = IdleThread]
    /\ UNCHANGED <<cache, now, ws, fetched, apiVars>>

\* An hour passes.
Elapse ==
    /\ now.t + CacheDuration <= MaxTime
    /\ now' = [now EXCEPT !.t = @ + CacheDuration]
    /\ UNCHANGED <<cache, ws, fetched, th, apiVars>>

NextThreads ==
    \/ \E t \in Threads : ThreadCall(t)
    \/ \E t \in Threads : ThreadCheck(t)
    \/ \E t \in Threads : ThreadRead(t)
    \/ \E t \in Threads : ThreadCompare(t)
    \/ \E t \in Threads : ThreadRequest(t)
    \/ \E t \in Threads : ThreadAnswer(t)
    \/ \E t \in Threads : ThreadReceive(t)
    \/ \E t \in Threads : ThreadStore(t)
    \/ \E t \in Threads : ThreadReturn(t)
    \/ Elapse

InitThreads == InitApi /\ InitIdleWeather

SpecThreads == InitThreads /\ [][NextThreads]_vars

(***************************************************************************)
(* Fallback weather.  Two requests, each of which ends in a fallback: the  *)
(* WeatherService one (_get_fallback_weather(lat, lon)) or the one of      *)
(* AgriTechAPI.get_weather in final/backend/backend.py, whose values come  *)
(* from the random module.  th[t] holds what request t was answered.       *)
(***************************************************************************)

\* Draws of round(random.uniform(20, 35), 1), random.randint(40, 80) and,
\* for the first forecast day, round(random.uniform(0, 5), 1).
TemperatureDraws == {20, 35}
HumidityDraws == {40, 80}
RainfallDraws == {0, 5}

FallbackDistricts == {"Pune", "Atlantis"}

\* AgriTechAPI._get_fallback_weather(district): 'current' from
\* _get_fallback_current_weather, 'forecast' from _get_fallback_forecast,
\* source 'fallback'.  The record keeps the current temperature and
\* humidity and the rainfall of the first forecast day.
AgriTechFallbackWeather(temp, hum, rain, t) ==
    [none |-> FALSE,
     keys |-> {"temperature", "humidity", "rainfall", "description", "timestamp",
               "is_fallback"},
     temperature |-> temp, humidity |-> hum, rainfall |-> rain, wind_speed |-> 0,
     description |-> "fallback", timestamp |-> t, is_fallback |-> TRUE]

\* WeatherService._get_fallback_weather(lat, lon).
ServiceFallback(t) ==
    /\ th[t].pc = "idle"
    /\ \E key \in CacheKeys :
         th' = [th EXCEPT ![t] = Finished(key, get_fallback_weather(now.month, now.t),
                                          FALSE)]
    /\ UNCHANGED <<cache, now, ws, fetched, apiVars>>

\* AgriTechAPI.get_weather(district) without a usable provider answer.
AgriTechFallback(t) ==
    /\ th[t].pc = "idle"
    /\ \E district \in FallbackDistricts, temp \in TemperatureDraws,
          hum \in HumidityDraws, rain \in RainfallDraws :
         th' = [th EXCEPT ![t] = Finished(district,
                                          AgriTechFallbackWeather(temp, hum, rain, now.t),
                                          FALSE)]
    /\ UNCHANGED <<cache, now, ws, fetched, apiVars>>

NextFallback ==
    \/ \E t \in Threads : ServiceFallback(t)
    \/ \E t \in Threads : AgriTechFallback(t)
    \/ \E t \in Threads : ThreadReturn(t)
    \/ Tick

\* The month stays what it was when the behaviour began.
SpecFallback == InitWeather /\ [][NextFallback]_vars

(***************************************************************************)
(* Properties of the API layer, checked under Spec                         *)
(***************************************************************************)

InRange(recs) ==
    \A k \in 1..Len(recs) :
        3000 <= recs[k].suitability_score /\ recs[k].suitability_score <= 10000

IsRankingCall == call.op \in {"recommend_crops", "model_recommend_crops"}

\* C1: every suitability_score emitted by recommend_crops lies in [30, 100]
\* (3000..10000 in hundredths), whatever the state, month, weather snapshot
\* and market adjustment: in the lists the three AgriTechAPI variants and
\* CropRecommendationModel return, and in what /recommend-crop answers.
C1_ScoreInRange ==
    /\ IsRankingCall => InRange(result.returned)
    /\ call.op = "recommend_crop" =>
         InRange(result.recommendations) /\ InRange(result.analysis)

\* A call in which the unclamped sum exceeds 100 and one in which it is
\* below 30 both end at the bound: here the ceiling, reached with bad
\* weather absent and season and state matching.
C1_Witness ==
    /\ call.op = "recommend_crops"
    /\ call.variant = "backend_app"
    /\ call.district # ""
    /\ result.returned[1].suitability_score = 10000
    /\ result.returned[5].suitability_score < 10000

Pos(crop, order) == CHOOSE i \in 1..Len(order) : order[i] = crop

Ordered(recs, order) ==
    \A i, j \in 1..Len(recs) :
        i < j =>
            /\ recs[i].suitability_score >= recs[j].suitability_score
            /\ recs[i].suitability_score = recs[j].suitability_score
                  => Pos(recs[i].crop, order) < Pos(recs[j].crop, order)

IsSeriesFor(points, days, today) ==
    /\ Len(points) = days
    /\ \A i \in 1..Len(points) :
         /\ points[i].date = DateOf(today + i)
         /\ DateBefore(DateOf(today), points[i].date)
         /\ i > 1 => DateBefore(points[i - 1].date, points[i].date)

\* C3: predict_crop_prices returns exactly `days` points, the i-th dated
\* today + i days, so the dates are strictly ascending, consecutive and
\* after the call date; with or without a district, whether the weather
\* lookups and the market enhancement succeed or fail.  The same holds of
\* the series /forecast-price answers with.
C3_SeriesDates ==
    /\ call.op = "predict_crop_prices" =>
         IsSeriesFor(result.returned, call.days, call.today)
    /\ (call.op = "forecast_price" /\ call.computed) =>
         /\ result.status = 200
         /\ IsSeriesFor(result.predictions, result.forecast_days.n, call.today)

\* A blended series over the turn of the year, one of whose weather lookups
\* returned nothing.
C3_Witness ==
    /\ call.op = "predict_crop_prices"
    /\ call.variant = "backend_app"
    /\ call.district # ""
    /\ call.ext.ok
    /\ call.days = MaxDays
    /\ \E k \in 1..call.days : ~call.wseq[k].present
    /\ \E k \in 1..call.days : call.wseq[k].present
    /\ result.returned[call.days].blended
    /\ result.returned[call.days].date.year # DateOf(call.today).year

\* C2: every price in the series predict_crop_prices returns is at least 0.7
\* times the crop's base price (2000 for an unknown crop), for every
\* volatility draw and weather context, blended points included.
C2_PriceFloorAll ==
    call.op = "predict_crop_prices" =>
        \A k \in 1..Len(result.returned) :
            result.returned[k].price >= base_prices(call.crop) * 70

\* The part of C2 the code does keep: the floor holds of every point that
\* enhance_forecast has not blended.
C2_UnblendedFloor ==
    call.op = "predict_crop_prices" =>
        \A k \in 1..Len(result.returned) :
            ~result.returned[k].blended =>
                result.returned[k].price >= base_prices(call.crop) * 70

CropMissing(j) == j.t = "absent" \/ (j.t = "str" /\ Strip(j.s) = "")
DaysInvalid(j) == j.t # "absent" /\ ~(j.t = "int" /\ 1 <= j.n /\ j.n <= 30)

\* C5: POST /forecast-price answers 400 and computes no forecast whenever
\* crop is absent, empty or only whitespace, or days is supplied and is not
\* an integer in 1..30.
C5_ForecastRejects ==
    (call.op = "forecast_price"
        /\ (CropMissing(call.body.crop) \/ DaysInvalid(call.body.days)))
    => (result.status = 400 /\ ~call.computed)

\* What the code keeps of C5: every body it answers 200 has a crop, and a
\* days value that is absent, an integer in 1..30, or the boolean true.
C5_AcceptedBodies ==
    (call.op = "forecast_price" /\ result.status = 200) =>
        /\ ~CropMissing(call.body.crop)
        /\ \/ ~DaysInvalid(call.body.days)
           \/ call.body.days = JBool(TRUE)

StateMissing(j) == j.t = "absent" \/ (j.t = "str" /\ Strip(j.s) = "")
MonthInvalid(j) == j.t \notin {"absent", "null"} /\ ~(j.t = "int" /\ 1 <= j.n /\ j.n <= 12)

\* C6: POST /recommend-crop answers 400 for every body whose state is absent
\* or empty and for every body whose month is supplied and is not an integer
\* in 1..12; no such body receives a 200.
C6_RecommendRejects ==
    (call.op = "recommend_crop"
        /\ (StateMissing(call.body.state) \/ MonthInvalid(call.body.month)))
    => result.status = 400

UnknownCrop(name) == \A crop \in Crops : Lower(crop) # Lower(name)

\* C7: a crop name absent from the reference tables is never an error.
\* predict_crop_prices prices it from base price 2000 and returns the full
\* series, /forecast-price answers 200, and the crop-analysis mode of
\* /recommend-crop answers 200 with suitability_score 60.0, estimated_yield
\* 2.5 and null season_match and region_suitable.
C7_UnknownCropDefaults ==
    /\ (call.op = "predict_crop_prices" /\ call.crop \notin PriceCrops) =>
         /\ Len(result.returned) = call.days
         /\ \A k \in 1..Len(result.returned) :
              LET point == result.returned[k]
                  w == IF call.variant = "backend_app" /\ call.district # ""
                       THEN call.wseq[k] ELSE NoWeather
                  price == PredictedPrice(2000, SeasonalFactor(call.crop, point.date.month),
                                          k, WeatherFactor(w), call.vols[k])
              IN  /\ price >= 2000 * 70
                  /\ point.price = IF point.blended
                                   THEN Blend(price, call.ext.points[k].yhat)
                                   ELSE price
    /\ (call.op = "forecast_price" /\ ForecastValidation(call.body) = 0
          /\ Stripped(call.body.crop) \notin PriceCrops) =>
         result.status = 200 /\ Len(result.predictions) = result.forecast_days.n
    /\ (call.op = "recommend_crop" /\ call.branch = "crop_analysis"
          /\ UnknownCrop(Stripped(call.body.crop))) =>
         /\ result.status = 200
         /\ Len(result.analysis) = 1
         /\ result.analysis[1].crop = Stripped(call.body.crop)
         /\ result.analysis[1].suitability_score = 6000
         /\ result.analysis[1].estimated_yield = 25
         /\ result.analysis[1].season_match = "null"
         /\ result.analysis[1].region_suitable = "null"

\* The crop-analysis mode asked about a crop that no table has.
C7_Witness ==
    /\ call.op = "recommend_crop"
    /\ call.branch = "crop_analysis"
    /\ Stripped(call.body.crop) = "Quinoa"
    /\ result.status = 200
    /\ result.analysis[1].suitability_score = 6000

(***************************************************************************)
(* Properties of WeatherService, checked under SpecWeather and             *)
(* SpecWeatherFair                                                         *)
(***************************************************************************)

LookupDone == ws.pc = "done" /\ ws.service = "final_backend"

\* C8: whenever the provider request fails (timeout, connection error or
\* an error status), WeatherService.get_weather_data does not raise and
\* returns a snapshot with is_fallback = true that has temperature,
\* humidity, rainfall and wind_speed.
C8_FallbackOnFailure ==
    (LookupDone /\ ws.outcome.kind \in {"timeout", "connection_error", "http_error"})
    => /\ ~ws.raised
       /\ ~ws.returned.none
       /\ "is_fallback" \in ws.returned.keys
       /\ ws.returned.is_fallback
       /\ {"temperature", "humidity", "rainfall", "wind_speed"} \subseteq ws.returned.keys
       /\ ws.returned = get_fallback_weather(now.month, ws.returned.timestamp)

\* A lookup that found an expired entry, asked the provider, got an error
\* status and returned the monsoon estimate.
C8_Witness ==
    /\ LookupDone
    /\ ws.outcome.kind = "http_error"
    /\ ws.prior.present
    /\ ws.returned.is_fallback
    /\ ws.returned.temperature = 28

\* C9: after a successful fetch for a coordinate pair at time t, a lookup
\* of the same pair at t' with t' - t < 1 hour returns that cached snapshot
\* without contacting the provider, and a lookup with t' - t >= 1 hour
\* contacts the provider and does not return the expired entry.  ws.prior
\* is the latest successful fetch for the pair when the lookup began, ws.at
\* the time it began.
C9_CacheTtl ==
    (ws.pc \in {"waiting", "answered", "done"} /\ ws.service = "final_backend"
        /\ ws.prior.present)
    => IF ws.at - ws.prior.timestamp < CacheDuration
       THEN /\ ~ws.contacted
            /\ ws.pc = "done"
            /\ ws.returned = ws.prior.data
       ELSE /\ ws.contacted
            /\ ws.pc = "done" => ws.returned # ws.prior.data

\* A lookup exactly one hour after the fetch: it asked the provider again.
C9_Witness ==
    /\ LookupDone
    /\ ws.prior.present
    /\ ws.at - ws.prior.timestamp = CacheDuration
    /\ ws.contacted
    /\ ws.outcome.kind = "ok"
    /\ ws.returned.timestamp > ws.prior.timestamp

\* A lookup just under one hour after the fetch: served from the cache.
C9_HitWitness ==
    /\ LookupDone
    /\ ws.prior.present
    /\ ws.at - ws.prior.timestamp = CacheDuration - 1
    /\ ~ws.contacted
    /\ ws.returned = ws.prior.data

\* C10: every weather lookup eventually returns: a lookup that waits for
\* the provider completes, also when the provider never answers.
C10_LookupReturns == (ws.pc = "waiting") ~> (ws.pc = "done")

\* What the code does guarantee: once requests.get has returned or raised,
\* the lookup completes.
C10_AnsweredReturns == (ws.pc = "answered") ~> (ws.pc = "done")

(***************************************************************************)
(* Properties of concurrent lookups, checked under SpecThreads             *)
(***************************************************************************)

FetchedFor(key, data) ==
    /\ ~data.none
    /\ \E r \in ReadingsFor(key) : data = WeatherData(r, data.timestamp)

\* C11: under every interleaving of concurrent get_weather_data calls on
\* one WeatherService, each cache entry is a complete (snapshot, timestamp)
\* pair written by one successful fetch for the entry's own key, and each
\* call that returns hands back a complete snapshot fetched for its own
\* coordinates or a fallback snapshot; a call raises only when the
\* provider's body was malformed.
C11_ConcurrentCache ==
    /\ \A key \in CacheKeys :
         cache[key].present =>
            /\ FetchedFor(key, cache[key].data)
            /\ cache[key].data.timestamp <= cache[key].timestamp
            /\ cache[key].timestamp <= now.t
    /\ \A t \in Threads :
         th[t].pc = "done" =>
            IF th[t].raised THEN th[t].outcome.kind = "malformed"
            ELSE \/ FetchedFor(th[t].key, th[t].returned)
                 \/ th[t].returned
                      = get_fallback_weather(now.month, th[t].returned.timestamp)

\* Two threads looked up the same coordinates, both missed the cache and
\* both fetched; they hold different snapshots and the cache holds the one
\* stored last.
C11_Witness ==
    /\ th["t1"].pc = "done" /\ th["t2"].pc = "done"
    /\ th["t1"].key = th["t2"].key
    /\ FetchedFor(th["t1"].key, th["t1"].returned)
    /\ FetchedFor(th["t2"].key, th["t2"].returned)
    /\ th["t1"].returned # th["t2"].returned
    /\ cache[th["t1"].key].data = th["t2"].returned
    /\ \E key \in CacheKeys : key # th["t1"].key /\ cache[key].present

(***************************************************************************)
(* Further properties of the API layer, checked under Spec                 *)
(***************************************************************************)

\* C12: when an unexpected exception occurs while the crops are scored for
\* /recommend-crop, the endpoint answers 500 with no recommendations; it
\* never answers 200 with an empty or partial list.
C12_ScoringErrorIs500 ==
    (call.op = "recommend_crop" /\ call.raised) =>
        /\ result.status = 500
        /\ result.recommendations = <<>>
        /\ result.analysis = <<>>

\* What the code keeps of C12: backend/app.py answers 500, and no variant
\* answers with part of a list.
C12_NoPartialList ==
    (call.op = "recommend_crop" /\ call.raised) =>
        /\ call.variant = "backend_app" => result.status = 500
        /\ result.recommendations = <<>>

\* The crops whose seasons hold the month and whose states hold the state,
\* and the crops for which neither is the case.
MatchBoth(state, month) ==
    {c \in Crops : /\ month \in crop_suitability[c].seasons
                   /\ state \in crop_suitability[c].states}

MatchNeither(state, month) ==
    {c \in Crops : /\ month \notin crop_suitability[c].seasons
                   /\ state \notin crop_suitability[c].states}

ScoreOf(recs, crop) ==
    LET k == CHOOSE i \in 1..Len(recs) : recs[i].crop = crop
    IN  recs[k].suitability_score

CropsOf(recs) == {recs[k].crop : k \in 1..Len(recs)}

IsJuneMaharashtraCall ==
    /\ call.op = "recommend_crops"
    /\ call.state = "Maharashtra"
    /\ call.month = 6
    /\ \A c \in Crops : ~call.wv[c].present /\ Abs(MarketFactor(call.mkt[c])) <= 500

\* C13: for recommend_crops(state = 'Maharashtra', month = 6) with no
\* weather data and every per-crop market adjustment in [-5, 5], each crop
\* that has 6 in its seasons and Maharashtra in its states gets a strictly
\* higher suitability_score than each crop that has neither, and so no crop
\* with neither stands before a crop with both in the returned list.
C13_MatchingCropsFirst ==
    IsJuneMaharashtraCall =>
        LET scored == Scored(call.variant, call.state, call.month, call.wv, call.mkt)
            recs == result.returned
        IN  /\ \A a \in MatchBoth("Maharashtra", 6), b \in MatchNeither("Maharashtra", 6) :
                 ScoreOf(scored, a) > ScoreOf(scored, b)
            /\ \A i, j \in 1..Len(recs) :
                 (/\ recs[i].crop \in MatchBoth("Maharashtra", 6)
                  /\ recs[j].crop \in MatchNeither("Maharashtra", 6)) => i < j
            /\ \A k \in 1..Len(recs) :
                 recs[k].suitability_score = ScoreOf(scored, recs[k].crop)

\* The narrowest case: the market draw is -4.96 for every crop but Wheat,
\* which draws +5; Tomato (both) scores 85.0 and Wheat (neither) 72.0.
C13_Witness ==
    /\ IsJuneMaharashtraCall
    /\ call.variant = "final_app"
    /\ MarketFactor(call.mkt["Tomato"]) = -496
    /\ MarketFactor(call.mkt["Wheat"]) = 500
    /\ "Tomato" \in MatchBoth("Maharashtra", 6)
    /\ "Wheat" \in MatchNeither("Maharashtra", 6)
    /\ Len(result.returned) = 5
    /\ CropsOf(result.returned) \cap MatchBoth("Maharashtra", 6) # {}

IsRiceFiveCall ==
    /\ call.op = "predict_crop_prices"
    /\ call.crop = "Rice"
    /\ call.days = TestDays
    /\ call.district = ""

HighMonths == {10, 11, 12, 1, 2}

\* The month of the k-th target date of the call.
TargetMonth(k) == DateOf(call.today + k).month

\* The price of point k when its seasonal factor is f (in hundredths).
PriceWith(f, k) ==
    PredictedPrice(base_prices("Rice"), f, k, 1000, call.vols[k])

\* C14 as stated: for predict_crop_prices('Rice', 5) with no weather and no
\* external model, every point uses the seasonal factor 1.1 when all five
\* target dates fall in the months {10, 11, 12, 1, 2}, and otherwise the five
\* points use 0.95.
C14_AllOrNothing ==
    IsRiceFiveCall =>
        LET f == IF \A k \in 1..TestDays : TargetMonth(k) \in HighMonths
                 THEN 110 ELSE 95
        IN  /\ Len(result.returned) = TestDays
            /\ \A k \in 1..TestDays : result.returned[k].price = PriceWith(f, k)

\* C14 amended: the factor is chosen point by point: a point whose own date
\* falls in the months {10, 11, 12, 1, 2} uses 1.1 and any other point 0.95;
\* so all five use 1.1 when all five dates are in those months and all five
\* use 0.95 when none is.
C14_FactorPerDate ==
    IsRiceFiveCall =>
        /\ Len(result.returned) = TestDays
        /\ \A k \in 1..TestDays :
             /\ result.returned[k].date = DateOf(call.today + k)
             /\ result.returned[k].price
                  = PriceWith(IF TargetMonth(k) \in HighMonths THEN 110 ELSE 95, k)

\* A call on 2024-02-27: the points of 28 and 29 February use 1.1, the
\* points of 1 to 3 March use 0.95, and the two factors give different
\* prices for the March points.
C14_Witness ==
    /\ IsRiceFiveCall
    /\ call.today = 58
    /\ TargetMonth(2) = 2 /\ TargetMonth(3) = 3
    /\ result.returned[2].price = PriceWith(110, 2)
    /\ result.returned[3].price = PriceWith(95, 3)
    /\ PriceWith(95, 3) # PriceWith(110, 3)

(***************************************************************************)
(* Further properties of WeatherService, checked under SpecWeather         *)
(***************************************************************************)

IsDistrictLookup == ws.service = "final_backend" /\ ws.district # ""

\* What a finished get_weather_data hands back: the cached snapshot, the
\* snapshot just fetched and stored, or the fallback.
IsLookupResult ==
    IF ~ws.contacted THEN ws.prior.present /\ ws.returned = ws.prior.data
    ELSE IF ws.outcome.kind = "ok"
    THEN /\ ws.returned = WeatherData(ws.outcome.reading, ws.returned.timestamp)
         /\ cache[ws.key].data = ws.returned
    ELSE ws.returned = get_fallback_weather(now.month, ws.returned.timestamp)

DistrictLookupState ==
    /\ (IsDistrictLookup /\ ~ws.known) =>
          /\ ws.pc = "done"
          /\ ws.returned.none
          /\ ~ws.contacted
          /\ ~ws.raised
    /\ (IsDistrictLookup /\ ws.known /\ ws.pc = "done") =>
          IF ws.raised THEN ws.outcome.kind = "malformed"
          ELSE /\ ~ws.returned.none
               /\ ws.key \in CacheKeys
               /\ IsLookupResult

DistrictLookupStep ==
    (ws.pc = "idle" /\ ws'.district # "" /\ ~ws'.known) => cache' = cache

\* C15: get_weather_by_district returns None, without contacting the
\* provider and without changing the cache, exactly when the district is
\* not a key of the supplied coordinates map; for a district of the map a
\* call that returns hands back the result of get_weather_data for the
\* mapped coordinates, which is never None (a call whose provider body is
\* malformed raises and returns nothing).
C15_DistrictLookup == []DistrictLookupState /\ [][DistrictLookupStep]_vars

\* Pune was looked up and cached through a map that has it; a later call
\* with a map that lacks Pune returns None and leaves the entry alone.
C15_Witness ==
    /\ IsDistrictLookup
    /\ ws.pc = "done"
    /\ ws.district = "Pune"
    /\ ~ws.known
    /\ ws.returned.none
    /\ cache["18.5204,73.8567"].present

\* A lookup of a district of the map that was answered from the cache.
C15_KnownWitness ==
    /\ IsDistrictLookup
    /\ ws.pc = "done"
    /\ ws.known
    /\ ~ws.contacted
    /\ ~ws.returned.none

(***************************************************************************)
(* The month of /recommend-crop, checked under Spec                        *)
(***************************************************************************)

\* A location-based request with a valid state whose scoring completed.
IsLocationRequest ==
    /\ call.op = "recommend_crop"
    /\ ~IsEmptyBody(call.body)
    /\ call.variant # "backend_app" => call.body.crop.t = "absent"
    /\ ~StripRaises(call.body.state) /\ ~StripRaises(call.body.district)
    /\ Stripped(call.body.state) # ""
    /\ ~call.raised

\* The answer the claim describes: 200, the current month in the month
\* field, and the crops scored with that month.
AnsweredWithCurrentMonth ==
    LET current_month == DateOf(call.today).month
    IN  /\ result.status = 200
        /\ result.month = JInt(current_month)
        /\ result.recommendations
             = recommend_crops(call.variant, Stripped(call.body.state), current_month,
                               call.wv, call.mkt)

\* C16: when month is omitted from the /recommend-crop body or given as
\* null, and state is valid, the endpoint scores with the current calendar
\* month and answers 200 with the month field set to that month.
C16_MonthDefaults ==
    (IsLocationRequest /\ call.body.month.t \in {"absent", "null"})
        => AnsweredWithCurrentMonth

\* What the code keeps of C16: an omitted month defaults in every variant,
\* a null month only in final/backend.
C16_MonthOmitted ==
    (/\ IsLocationRequest
     /\ \/ call.body.month.t = "absent"
        \/ call.body.month.t = "null" /\ call.variant # "backend_app")
        => AnsweredWithCurrentMonth

\* backend/app.py answers 500 to a null month.
C16_NullMonthIs500 ==
    (IsLocationRequest /\ call.body.month.t = "null" /\ call.variant = "backend_app")
        => result.status = 500

(***************************************************************************)
(* Properties of the fallback weather, checked under SpecFallback          *)
(***************************************************************************)

SameValues(a, b) ==
    /\ a.temperature = b.temperature
    /\ a.humidity = b.humidity
    /\ a.rainfall = b.rainfall

IsFallbackResult(t) == th[t].pc = "done" /\ th[t].returned.is_fallback

\* C17: any two fallback results produced in the same month, for any
\* coordinates or district, have identical temperature, humidity and
\* rainfall.
C17_FallbackDeterministic ==
    \A t1, t2 \in Threads :
        (IsFallbackResult(t1) /\ IsFallbackResult(t2))
            => SameValues(th[t1].returned, th[t2].returned)

\* What the code keeps of C17: the fallbacks of WeatherService agree, and
\* they are the seasonal estimate of the month.
C17_ServiceFallbackDeterministic ==
    \A t1, t2 \in Threads :
        (/\ IsFallbackResult(t1) /\ IsFallbackResult(t2)
         /\ th[t1].key \in CacheKeys /\ th[t2].key \in CacheKeys)
            => /\ SameValues(th[t1].returned, th[t2].returned)
               /\ th[t1].returned.temperature = SeasonalEstimate(now.month)[1]

\* Two WeatherService fallbacks for different coordinates at different
\* times of a monsoon month.
C17_ServiceWitness ==
    /\ IsFallbackResult("t1") /\ IsFallbackResult("t2")
    /\ th["t1"].key \in CacheKeys /\ th["t2"].key \in CacheKeys
    /\ th["t1"].key # th["t2"].key
    /\ th["t1"].returned.timestamp # th["t2"].returned.timestamp
    /\ now.month = 7

(***************************************************************************)
(* The scoring formula, checked under Spec                                 *)
(***************************************************************************)

IsNoWeatherCall ==
    /\ call.op = "recommend_crops"
    /\ \A c \in Crops : ~call.wv[c].present

\* The formula of C18, in hundredths, with the state term applied before
\* the season term: month 0 is an omitted month, state "" an omitted state.
ClaimedS(crop, month) ==
    CASE month = 0 -> 0
      [] month \in crop_suitability[crop].seasons -> 1500
      [] OTHER -> -1000

ClaimedR(crop, state) ==
    CASE state = "" -> 0
      [] state \in crop_suitability[crop].states -> 1000
      [] OTHER -> -500

ClaimedScore(crop, state, month, M) ==
    LET with_state == crop_suitability[crop].base_score * 100 + ClaimedR(crop, state)
        with_season == with_state + ClaimedS(crop, month)
        with_market == with_season + M
    IN  IF with_market < 3000 THEN 3000
        ELSE IF with_market > 10000 THEN 10000
        ELSE with_market

\* C18: with no weather context the score of each crop is
\* clamp(base_score + S + R + M, 30, 100), S being +15 / -10 / 0 by the
\* month alone, R +10 / -5 / 0 by the state alone, M the market adjustment,
\* in whichever order S and R are applied; the suitability_score of a
\* record is that score rounded to one decimal, and is the score itself
\* when M is a whole number of tenths.
C18_ScoreFormula ==
    IsNoWeatherCall =>
        LET scored == Scored(call.variant, call.state, call.month, call.wv, call.mkt)
            claimed(c) == ClaimedScore(c, call.state, call.month,
                                       MarketFactor(call.mkt[c]))
        IN  /\ \A c \in Crops :
                 /\ ScoreOf(scored, c) = Round1(claimed(c))
                 /\ MarketFactor(call.mkt[c]) % 10 = 0 => ScoreOf(scored, c) = claimed(c)
            /\ \A k \in 1..Len(result.returned) :
                 result.returned[k].suitability_score
                    = Round1(claimed(result.returned[k].crop))

\* June in Maharashtra with a draw of -4.96 for all crops: Cotton (in
\* season, in state) stays under the ceiling at 98.0, Potato (neither)
\* scores 48.0, and Rice (in season, out of state) is returned with 90.0.
C18_Witness ==
    /\ IsNoWeatherCall
    /\ call.state = "Maharashtra" /\ call.month = 6
    /\ \A c \in Crops : MarketFactor(call.mkt[c]) = -496
    /\ ClaimedS("Rice", 6) = 1500 /\ ClaimedR("Rice", "Maharashtra") = -500
    /\ \E k \in 1..Len(result.returned) :
         result.returned[k].crop = "Rice" /\ result.returned[k].suitability_score = 9000

(***************************************************************************)
(* The weather adjustment of final/backend/backend.py, checked under Spec  *)
(***************************************************************************)

IsWeatherCall ==
    /\ call.op = "recommend_crops"
    /\ call.variant = "final_backend"

\* The terms of C19 for one dimension of the snapshot w against the range
\* req; a dimension the snapshot lacks contributes 0.
ClaimedTemperature(w, req) ==
    IF "temperature" \notin w.keys THEN 0
    ELSE (IF req.min <= w.temperature /\ w.temperature <= req.max THEN 10 ELSE 0)
         + (IF /\ req.min <= w.temperature /\ w.temperature <= req.max
               /\ w.temperature - req.optimal <= 3 /\ req.optimal - w.temperature <= 3
            THEN 5 ELSE 0)

ClaimedHumidity(w, req) ==
    IF "humidity" \notin w.keys THEN 0
    ELSE (IF req.min <= w.humidity /\ w.humidity <= req.max THEN 8 ELSE 0)
         + (IF /\ req.min <= w.humidity /\ w.humidity <= req.max
               /\ w.humidity - req.optimal <= 10 /\ req.optimal - w.humidity <= 10
            THEN 4 ELSE 0)

ClaimedRainfall(w, req) ==
    IF "rainfall" \notin w.keys THEN 0
    ELSE (IF w.rainfall > 0 THEN 7 ELSE 0)
         + (IF w.rainfall > 0 /\ req.min <= w.rainfall /\ w.rainfall <= req.max
            THEN 5 ELSE 0)

\* Applied only when there is a snapshot and the crop has requirements.
ClaimedWeather(crop, w) ==
    IF ~w.present \/ crop \notin DOMAIN weather_requirements THEN 0
    ELSE ClaimedHumidity(w, weather_requirements[crop].humidity)
         + ClaimedRainfall(w, weather_requirements[crop].rainfall)
         + ClaimedTemperature(w, weather_requirements[crop].temperature)

ClaimedWeatherScore(crop) ==
    LET raw == crop_suitability[crop].base_score * 100
               + ClaimedS(crop, call.month) + ClaimedR(crop, call.state)
               + 100 * ClaimedWeather(crop, call.wv[crop])
               + MarketFactor(call.mkt[crop])
    IN  Round1(IF raw < 3000 THEN 3000 ELSE IF raw > 10000 THEN 10000 ELSE raw)

\* C19: in recommend_crops of final/backend/backend.py the weather
\* adjustment is applied only when a snapshot and the crop's
\* weather_requirements both exist, and is the sum of temperature (+10 in
\* [min, max], +5 more within 3 of optimal), humidity (+8 in [min, max], +4
\* more within 10 of optimal) and rainfall (+7 when positive, +5 more in
\* [min, max]); a dimension the snapshot lacks contributes 0 and a
\* temperature above the maximum costs the temperature bonus only.
C19_WeatherAdjustment ==
    IsWeatherCall =>
        LET scored == Scored(call.variant, call.state, call.month, call.wv, call.mkt)
        IN  /\ \A c \in Crops :
                 /\ WeatherScore(c, call.wv[c]) = ClaimedWeather(c, call.wv[c])
                 /\ ScoreOf(scored, c) = ClaimedWeatherScore(c)
            /\ \A k \in 1..Len(result.returned) :
                 LET rec == result.returned[k]
                 IN  /\ rec.suitability_score = ClaimedWeatherScore(rec.crop)
                     /\ call.wv[rec.crop].present =>
                          (rec.weather_suitable = "true")
                             <=> (ClaimedWeather(rec.crop, call.wv[rec.crop]) > 15)

\* 45 degrees, 60 % humidity, no rain, in season and out of state: Wheat
\* loses the temperature bonus and keeps humidity's 8 + 4, and is returned
\* with 82 + 15 - 5 + 12 - 4.96 = 99.0.
C19_Witness ==
    /\ IsWeatherCall
    /\ call.month = 11 /\ call.state = "Kerala"
    /\ call.wv["Wheat"] = Snapshot(45, 60, 0)
    /\ MarketFactor(call.mkt["Wheat"]) = -496
    /\ ClaimedTemperature(call.wv["Wheat"], weather_requirements["Wheat"].temperature) = 0
    /\ ClaimedWeather("Wheat", call.wv["Wheat"]) = 12
    /\ \E k \in 1..Len(result.returned) :
         /\ result.returned[k].crop = "Wheat"
         /\ result.returned[k].suitability_score = 9900

\* The snapshot without humidity: Rice gets temperature's 15 and
\* rainfall's 12 and nothing for humidity.
C19_PartialWitness ==
    /\ IsWeatherCall
    /\ call.wv["Rice"] = PartialWeather
    /\ ClaimedWeather("Rice", call.wv["Rice"]) = 27
    /\ call.month = 0 /\ call.state = "Kerala"
    /\ MarketFactor(call.mkt["Rice"]) = -496
    /\ \E k \in 1..Len(result.returned) :
         /\ result.returned[k].crop = "Rice"
         /\ result.returned[k].suitability_score = 10000

(***************************************************************************)
(* The weather score of CropRecommendationModel, checked under Spec        *)
(***************************************************************************)

IsModelWeatherCall == call.op = "model_recommend_crops" /\ call.w.present

ModelCrops == {ModelCropOrder[i] : i \in 1..Len(ModelCropOrder)}

ClaimedModelScore(crop) ==
    LET raw == CalculateBaseScore(call.has_ph, call.ph)
               + ClaimedWeather(crop, call.w)
               + (IF call.month \in crop_suitability[crop].seasons THEN 15 ELSE -10)
    IN  Round1(IF raw < 30 THEN 3000 ELSE IF raw > 100 THEN 10000 ELSE raw * 100)

\* C20: CropRecommendationModel._calculate_weather_score gives, for every
\* crop of its table and every snapshot, the weather adjustment of the
\* scoring rules: temperature +10 in range and +5 more within 3 of optimal,
\* humidity +8 in range and +4 more within 10 of optimal, rainfall +7 when
\* positive and +5 more in range; and the scores it returns are built on it.
C20_ModelWeatherScore ==
    IsModelWeatherCall =>
        /\ \A c \in ModelCrops : CalculateWeatherScore(c, call.w) = ClaimedWeather(c, call.w)
        /\ \A k \in 1..Len(result.returned) :
             result.returned[k].suitability_score
                = ClaimedModelScore(result.returned[k].crop)

\* What the code keeps of C20: the temperature term is the one described,
\* and the score never exceeds the described adjustment.
C20_TemperatureTermOnly ==
    IsModelWeatherCall =>
        \A c \in ModelCrops :
            /\ CalculateWeatherScore(c, call.w) <= ClaimedWeather(c, call.w)
            /\ CalculateWeatherScore(c, [call.w EXCEPT !.keys = {"temperature"}])
                 = ClaimedTemperature(call.w, weather_requirements[c].temperature)

(***************************************************************************)
(* The market adjustment of backend/app.py, checked under Spec             *)
(***************************************************************************)

IsHistoryCall ==
    /\ call.op = "recommend_crops"
    /\ call.variant = "backend_app"
    /\ \A c \in Crops : call.mkt[c].kind = "history"

\* The score of a crop when its market adjustment is M (in hundredths).
ScoreWithMarket(crop, M) ==
    LET raw == crop_suitability[crop].base_score * 100
               + ClaimedS(crop, call.month) + ClaimedR(crop, call.state)
               + 100 * WeatherImpact(call.wv[crop]) + M
    IN  Round1(IF raw < 3000 THEN 3000 ELSE IF raw > 10000 THEN 10000 ELSE raw)

\* C21: in recommend_crops of backend/app.py, whenever a price history is
\* available for the crop, the market adjustment is +5 exactly when the
\* price at the most recent date of the history is higher than the price
\* at its oldest date, and -5 otherwise, with no random part.
C21_TrendSign ==
    IsHistoryCall =>
        LET scored == Scored(call.variant, call.state, call.month, call.wv, call.mkt)
        IN  \A c \in Crops :
                ScoreOf(scored, c)
                  = ScoreWithMarket(c, IF call.mkt[c].newest > call.mkt[c].oldest
                                       THEN 500 ELSE -500)

\* What the code keeps of C21: the adjustment is +5 or -5 and is fixed by
\* the history; it is +5 exactly when the oldest price of the history is
\* higher than the most recent one.
C21_TrendReversed ==
    IsHistoryCall =>
        LET scored == Scored(call.variant, call.state, call.month, call.wv, call.mkt)
        IN  /\ \A c \in Crops :
                 ScoreOf(scored, c)
                   = ScoreWithMarket(c, IF call.mkt[c].oldest > call.mkt[c].newest
                                        THEN 500 ELSE -500)
            /\ \A k \in 1..Len(result.returned) :
                 result.returned[k].suitability_score
                    = ScoreOf(scored, result.returned[k].crop)

(***************************************************************************)
(* The recommendation reason, checked under Spec                           *)
(***************************************************************************)

\* The static rationale of a crop, as the first part of a reason.
StaticRationale(crop) ==
    IF crop \in Crops THEN "rationale:" \o crop ELSE "Suitable crop for the region"

\* The parts of a reason after the first: the weather observations.
Observations(reason) == Len(reason) - 1

\* C22: the reason of a recommendation is the crop's static rationale
\* followed by at most 2 weather-derived observations; with no weather
\* snapshot it is exactly the static rationale.
C22_ReasonParts ==
    call.op = "recommend_crops" =>
        \A k \in 1..Len(result.returned) :
            LET rec == result.returned[k]
                reason == rec.recommendation_reason
            IN  /\ Len(reason) >= 1
                /\ reason[1] = StaticRationale(rec.crop)
                /\ Observations(reason) <= 2
                /\ ~call.wv[rec.crop].present => reason = <<StaticRationale(rec.crop)>>

\* The observations the snapshot of a call gives rise to: one for the
\* temperature, one for the humidity, one for rainfall above zero.
ExpectedObservations(variant, w) ==
    IF variant = "final_backend" /\ w.present
    THEN (IF "temperature" \in w.keys THEN 1 ELSE 0)
         + (IF "humidity" \in w.keys THEN 1 ELSE 0)
         + (IF "rainfall" \in w.keys /\ w.rainfall > 0 THEN 1 ELSE 0)
    ELSE 0

\* C22 amended: the reason is the crop's static rationale followed by one
\* observation for each of temperature and humidity the snapshot holds and
\* one for rainfall above zero, so by at most 3 observations; with no
\* weather snapshot it is exactly the static rationale.
C22_ReasonUpToThree ==
    call.op = "recommend_crops" =>
        \A k \in 1..Len(result.returned) :
            LET rec == result.returned[k]
                reason == rec.recommendation_reason
            IN  /\ Len(reason) >= 1
                /\ reason[1] = StaticRationale(rec.crop)
                /\ Observations(reason) = ExpectedObservations(call.variant, call.wv[rec.crop])
                /\ Observations(reason) <= 3
                /\ ~call.wv[rec.crop].present => reason = <<StaticRationale(rec.crop)>>

\* A snapshot of 25 degrees, 75 % humidity and 150 mm of rain: the reason
\* of Rice has three observations after the rationale.
C22_Witness ==
    /\ call.op = "recommend_crops"
    /\ call.variant = "final_backend"
    /\ call.wv["Rice"] = Snapshot(25, 75, 150)
    /\ \E k \in 1..Len(result.returned) :
         /\ result.returned[k].crop = "Rice"
         /\ Observations(result.returned[k].recommendation_reason) = 3
         /\ result.returned[k].recommendation_reason[2] = "Current temperature is favorable"

(***************************************************************************)
(* The weather factor of predict_crop_prices, checked under Spec           *)
(***************************************************************************)

IsDistrictForecast ==
    /\ call.op = "predict_crop_prices"
    /\ call.variant = "backend_app"

\* The snapshot in hand at the k-th point: nothing without a district.
PointWeather(k) == IF call.district # "" THEN call.wseq[k] ELSE NoWeather

\* The factor of C23, in thousandths.
ClaimedFactor(w) ==
    LET start == 1000
        after_temperature ==
            IF w.present /\ (w.temperature < 15 \/ w.temperature > 35)
            THEN (start * 95) \div 100 ELSE start
    IN  IF w.present /\ w.rainfall > 50
        THEN (after_temperature * 90) \div 100 ELSE after_temperature

\* The price of point k before any blending, under weather factor f.
PointPrice(k, f) ==
    PredictedPrice(base_prices(call.crop),
                   SeasonalFactor(call.crop, DateOf(call.today + k).month),
                   k, f, call.vols[k])

\* C23: the weather factor of a point is 1.0, times 0.95 when the snapshot
\* temperature is below 15 or above 35, times 0.9 when the snapshot
\* rainfall is above 50; it is exactly 1.0 without a district, when the
\* lookup returned nothing, and at temperature 15, temperature 35 and
\* rainfall 50.  The factor shows in the price of the point and in the
\* impact of its weather_context.
C23_WeatherFactor ==
    IsDistrictForecast =>
        \A k \in 1..Len(result.returned) :
            LET w == PointWeather(k)
                point == result.returned[k]
                unit == \/ ~w.present
                        \/ /\ 15 <= w.temperature /\ w.temperature <= 35
                           /\ w.rainfall <= 50
                f == IF unit THEN 1000 ELSE ClaimedFactor(w)
            IN  /\ unit => ClaimedFactor(w) = 1000
                /\ IF point.blended
                   THEN point.price = Blend(PointPrice(k, f), call.ext.points[k].yhat)
                   ELSE point.price = PointPrice(k, f)
                /\ point.weather_context.present = w.present
                /\ w.present =>
                     (point.weather_context.impact = "negative") <=> (f < 1000)

\* A forecast for a district at 35 degrees and 50 mm of rain, both on the
\* bound: the factor is 1.0, the impact positive, and the price differs
\* from what 0.95 or 0.9 would give.
C23_Witness ==
    /\ IsDistrictForecast
    /\ call.district # ""
    /\ ~call.ext.ok
    /\ call.wseq[1] = Snapshot(35, 60, 50)
    /\ result.returned[1].price = PointPrice(1, 1000)
    /\ PointPrice(1, 1000) # PointPrice(1, 950)
    /\ PointPrice(1, 1000) # PointPrice(1, 900)
    /\ result.returned[1].weather_context.impact = "positive"

\* A forecast in which both bands apply: 40 degrees and 60 mm.
C23_BothWitness ==
    /\ IsDistrictForecast
    /\ call.district # ""
    /\ ~call.ext.ok
    /\ call.wseq[1] = Snapshot(40, 60, 60)
    /\ result.returned[1].price = PointPrice(1, 855)
    /\ PointPrice(1, 855) # PointPrice(1, 900)
    /\ PointPrice(1, 855) # PointPrice(1, 950)

(***************************************************************************)
(* The market enhancement of predict_crop_prices, checked under Spec       *)
(***************************************************************************)

IsEnhancedCall == IsDistrictForecast /\ call.district # ""

\* The price point k had before enhance_forecast was called.
OriginalPrice(k) == PointPrice(k, ClaimedFactor(PointWeather(k)))

\* p is the mean of a and b rounded to 2 decimals (all in hundredths).
IsRoundedMean(p, a, b) == 2 * p - (a + b) \in {-1, 0, 1}

\* C24: when enhance_forecast succeeds, the price of each forecast point i
\* is the arithmetic mean of the point's original predicted price and the
\* external model's price for the same date (row i), rounded to 2
\* decimals, and the point carries the external model's lower and upper
\* confidence bounds of that row.
C24_BlendedMean ==
    (IsEnhancedCall /\ call.ext.ok) =>
        /\ Len(result.returned) = call.days
        /\ \A k \in 1..Len(result.returned) :
             LET point == result.returned[k]
                 row == call.ext.points[k]
             IN  /\ point.blended
                 /\ IsRoundedMean(point.price, OriginalPrice(k), row.yhat)
                 /\ point.confidence_lower = row.yhat_lower
                 /\ point.confidence_upper = row.yhat_upper

\* A series of MaxDays points blended with rows that differ by date: the
\* last point carries the bounds of the last row, and the sum of its two
\* prices is odd, so the mean was rounded.
C24_Witness ==
    /\ IsEnhancedCall /\ call.ext.ok
    /\ call.days = MaxDays
    /\ call.ext.points[1] # call.ext.points[MaxDays]
    /\ result.returned[MaxDays].confidence_upper = call.ext.points[MaxDays].yhat_upper
    /\ (OriginalPrice(MaxDays) + call.ext.points[MaxDays].yhat) % 2 = 1
    /\ IsRoundedMean(result.returned[MaxDays].price, OriginalPrice(MaxDays),
                     call.ext.points[MaxDays].yhat)

\* C25: when the enhancement fails at any step, enhance_forecast returns
\* the original forecast: every point keeps its price, no forecast has some
\* points blended and others not, and no price is blended unless
\* market_insights was attached.
C25_FailureKeepsForecast ==
    IsEnhancedCall =>
        /\ ~call.ext.ok =>
             \A k \in 1..Len(result.returned) :
                 /\ ~result.returned[k].blended
                 /\ result.returned[k].price = OriginalPrice(k)
        /\ \A j, k \in 1..Len(result.returned) :
             result.returned[j].blended = result.returned[k].blended
        /\ (\E k \in 1..Len(result.returned) : result.returned[k].blended)
               => HasMarketInsights(call.ext)

\* What the code keeps: a failure before the first point is written (no
\* price history, or the statistical model could not be fitted) leaves
\* every point as it was.
C25_EarlyFailureKeeps ==
    (IsEnhancedCall /\ ~call.ext.ok /\ call.ext.done = 0) =>
        \A k \in 1..Len(result.returned) :
            /\ ~result.returned[k].blended
            /\ result.returned[k].price = OriginalPrice(k)

\* A failure after the first point was written returns a series whose
\* first point is blended and whose last point is not.
C25_PartiallyBlended ==
    /\ IsEnhancedCall /\ ~call.ext.ok
    /\ Len(result.returned) >= 2
    /\ result.returned[1].blended
    /\ ~result.returned[Len(result.returned)].blended

(***************************************************************************)
(* The crop-analysis mode of /recommend-crop, checked under Spec           *)
(***************************************************************************)

\* A crop-analysis request whose scoring completed.
IsCropAnalysis ==
    call.op = "recommend_crop" /\ call.branch = "crop_analysis" /\ ~call.raised

RequestedCrop == Stripped(call.body.crop)

\* The crops of the suitability table the request names, whatever the case.
TableCrops == {c \in Crops : Lower(c) = Lower(RequestedCrop)}

\* The recommendation the scoring loop computes for table crop c in this
\* request.
OwnRecommendation(c) ==
    Recommendation(call.variant, c, Stripped(call.body.state),
                   DateOf(call.today).month, call.wv[c], call.mkt[c])

\* C26: in the crop-analysis mode, for every crop name of the suitability
\* table (in any case) and every state and month, the analysis returned is
\* that crop's own computed recommendation, never the unknown-crop default
\* (score 60.0, yield 2.5).
C26_OwnAnalysis ==
    IsCropAnalysis =>
        \A c \in TableCrops :
            /\ result.analysis[1] = OwnRecommendation(c)
            /\ result.analysis[1] # DefaultAnalysis(RequestedCrop)

\* What the code keeps: a table crop gets its own recommendation when it
\* is among the five best of the month, and the default otherwise.
C26_OwnAnalysisInTopFive ==
    IsCropAnalysis =>
        \A c \in TableCrops :
            LET best == recommend_crops(call.variant, Stripped(call.body.state),
                                        DateOf(call.today).month, call.wv, call.mkt)
            IN  result.analysis[1] =
                    IF \E k \in 1..Len(best) : best[k].crop = c
                    THEN OwnRecommendation(c)
                    ELSE DefaultAnalysis(RequestedCrop)

\* Potato is in the table and is answered with the default analysis.
C26_TableCropDefault ==
    /\ IsCropAnalysis
    /\ RequestedCrop = "Potato"
    /\ "Potato" \in TableCrops
    /\ result.analysis[1] = DefaultAnalysis("Potato")
    /\ result.analysis[1].suitability_score = 6000
    /\ OwnRecommendation("Potato").suitability_score # 6000

(***************************************************************************)
(* The recommendation engine, checked under Spec                           *)
(***************************************************************************)

IsEngineCall == call.op = "get_recommendations"

EngineSeason == GetSeason(call.month)

\* The crops whose sowing window for the month's season contains the month.
SuitableCrops == {c \in CalendarCrops : IsSuitable(c, call.month, EngineSeason)}

ReturnedCrops == {result.returned[k].crop : k \in 1..Len(result.returned)}

ProfitabilityOf(c) == CalculateProfitabilityScore(c, call.district, call.data)

\* C27: get_recommendations returns at most 3 crops, each with the month
\* in its sowing window for the month's season, and they are the most
\* profitable suitable crops: with the yield factors fixed, no suitable
\* crop left out has a higher profitability score than a returned one.
C27_MostProfitable ==
    IsEngineCall =>
        /\ Len(result.returned) <= 3
        /\ \A k \in 1..Len(result.returned) :
             /\ result.returned[k].crop \in SuitableCrops
             /\ InList(call.month, result.returned[k].sowing_window)
        /\ \A out \in SuitableCrops \ ReturnedCrops, r \in ReturnedCrops :
             ProfitabilityOf(out) <= ProfitabilityOf(r)

\* What the code keeps: at most 3 distinct suitable crops, as many as there
\* are when fewer than 3 are suitable, and they are the least profitable
\* ones, in ascending order of the score.
C27_LeastProfitable ==
    IsEngineCall =>
        /\ Len(result.returned) = Min(3, Cardinality(SuitableCrops))
        /\ Cardinality(ReturnedCrops) = Len(result.returned)
        /\ \A k \in 1..Len(result.returned) :
             /\ result.returned[k].crop \in SuitableCrops
             /\ result.returned[k].season = EngineSeason
             /\ InList(call.month, result.returned[k].sowing_window)
        /\ \A j, k \in 1..Len(result.returned) :
             j < k => ProfitabilityOf(result.returned[j].crop)
                          <= ProfitabilityOf(result.returned[k].crop)
        /\ \A out \in SuitableCrops \ ReturnedCrops, r \in ReturnedCrops :
             ProfitabilityOf(out) >= ProfitabilityOf(r)

\* June in Mysuru with the same draws for every crop: Onion, Tomato and
\* Paddy are returned while Groundnut, the most profitable, is left out.
C27_BestLeftOut ==
    /\ IsEngineCall /\ call.month = 6 /\ call.district = "Mysuru"
    /\ Len(result.returned) = 3
    /\ result.returned[1].crop = "Onion"
    /\ "Groundnut" \in SuitableCrops \ ReturnedCrops
    /\ \A r \in ReturnedCrops : ProfitabilityOf("Groundnut") > ProfitabilityOf(r)

(***************************************************************************)
(* The weather lookups of one predict_crop_prices call, checked under Spec *)
(***************************************************************************)

\* Point k of the result is what the loop computes from snapshot w.
ComputedFrom(k, w) ==
    LET point == result.returned[k]
        entry == ForecastEntry(call.crop, call.today, k, w, call.vols[k])
    IN  /\ point.weather_context = entry.weather_context
        /\ ~point.blended => point.price = entry.price
        /\ point.blended => point.price = Blend(entry.price, call.ext.points[k].yhat)

\* C28: within one predict_crop_prices call with a district, all points
\* are computed from one and the same weather snapshot, even when the
\* provider's answer changes or fails while the request is served.
C28_OneSnapshot ==
    (IsDistrictForecast /\ call.district # "") =>
        \E j \in 1..Len(call.wseq) :
            \A k \in 1..Len(result.returned) : ComputedFrom(k, call.wseq[j])

\* What the code does: every point is computed from the answer the
\* weather service gave in that point's own iteration.
C28_SnapshotPerPoint ==
    (IsDistrictForecast /\ call.district # "") =>
        \A k \in 1..Len(result.returned) : ComputedFrom(k, call.wseq[k])

\* One series in which the first point has a weather context with a
\* negative impact and the last point has none: the lookup failed midway.
C28_MixedSeries ==
    /\ IsDistrictForecast /\ call.district # ""
    /\ Len(result.returned) >= 2
    /\ result.returned[1].weather_context.present
    /\ result.returned[1].weather_context.impact = "negative"
    /\ ~result.returned[Len(result.returned)].weather_context.present

(***************************************************************************)
(* The cache after a provider failure, checked under SpecWeather           *)
(***************************************************************************)

\* A get_weather_data call for the key whose previous call ended in a
\* provider failure.
IsLookupAfterFailure ==
    ws.pc # "idle" /\ ws.service = "final_backend" /\ ws.key # "" /\ ws.after_failure

\* C29: a fallback snapshot is never stored in the weather cache: every
\* cache entry is the snapshot of a successful fetch and none has
\* is_fallback.  After a provider failure the next get_weather_data call
\* for the same coordinates contacts the provider again, and once the
\* provider has recovered it returns (and caches) the fresh data.
C29_FallbackNotCached ==
    /\ \A key \in CacheKeys :
         cache[key].present =>
            /\ ~cache[key].data.none
            /\ ~cache[key].data.is_fallback
            /\ "is_fallback" \notin cache[key].data.keys
            /\ cache[key] = fetched[key]
    /\ IsLookupAfterFailure =>
         /\ ws.contacted
         /\ (ws.pc = "done" /\ ws.outcome.kind = "ok") =>
              /\ ws.returned = WeatherData(ws.outcome.reading, ws.returned.timestamp)
              /\ ws.returned.timestamp >= ws.at
              /\ ~ws.returned.is_fallback
              /\ cache[ws.key] = Entry(ws.returned, ws.returned.timestamp)

\* The lookup that follows a failure for the same coordinates, within the
\* same quarter of an hour, has returned the recovered provider's data.
C29_Witness ==
    /\ IsLookupAfterFailure
    /\ ws.pc = "done" /\ ws.outcome.kind = "ok"
    /\ ws.contacted
    /\ ws.at = 0
    /\ ~ws.prior.present
    /\ ws.returned.temperature = 31
    /\ cache[ws.key].data = ws.returned

(***************************************************************************)
(* The source of AgriTechAPI.get_weather, checked under Spec               *)
(***************************************************************************)

IsGetWeather == call.op = "get_weather"

\* Both requests were answered with status 200.
BothAnswered ==
    /\ ~call.current.raised /\ call.current.status = 200
    /\ ~call.forecast.raised /\ call.forecast.status = 200

\* C30: with an API key configured and the provider answering 200 to both
\* requests, get_weather returns source 'agro_api' with the current
\* weather built from the provider's data; source 'fallback' is returned
\* only when the key is missing or a provider call fails.
C30_AgroSource ==
    IsGetWeather =>
        /\ (call.env_key # "" /\ BothAnswered) =>
              /\ result.returned.source = "agro_api"
              /\ result.returned.current.provided
              /\ result.returned.current.humidity = call.current.humidity
        /\ result.returned.source = "fallback" =>
              (call.env_key = "" \/ ~BothAnswered)

\* What the code does: the attribute the key is read from is never
\* assigned, so every call ends in the except branch and answers with the
\* fallback, whatever the environment and the provider.
C30_AlwaysFallback ==
    IsGetWeather =>
        /\ result.returned.source = "fallback"
        /\ ~result.returned.current.provided
        /\ result.returned.current.temperature = call.draw.temperature

\* A key in the environment, both requests answered 200 with 25.0 degrees,
\* and the result is the fallback with a drawn temperature of 34.7.
C30_FallbackDespiteKey ==
    /\ IsGetWeather /\ call.env_key # "" /\ BothAnswered
    /\ call.current.temp = 29815
    /\ result.returned.source = "fallback"
    /\ result.returned.current.temperature = 347

=============================================================================
